---- MODULE Spec2Model ----
(***************************************************************************)
(* Model of the ccmux transcript ingestion engine:                         *)
(*   - TranscriptParser (src/src/ccmux/transcript_parser.py): record       *)
(*     decoding and the entry reconstruction state machine;                *)
(*   - SessionMonitor (src/src/ccmux/session_monitor.py): offset tracking, *)
(*     the poll cycle and event delivery.                                  *)
(*                                                                         *)
(* Texts are atomic strings drawn from small vocabularies; a formatted     *)
(* text (an f-string of the source) is the tuple of its parts.             *)
(***************************************************************************)
EXTENDS Integers, Sequences, FiniteSets, TLC

\* Python's None.
None == "None"

\* Position of a content block: <<record index, block index>>. NoPos is the
\* position of nothing.  Positions are history information only: the program
\* keeps none of them, and no branch of the model reads them.
NoPos == <<0, 0>>

(***************************************************************************)
(* Vocabulary of texts and the regular expressions of the parser.          *)
(***************************************************************************)
CmdOnly == "<command-name>/clear</command-name>"
OutOnly == "<local-command-stdout>ok</local-command-stdout>"
CmdOut == "<command-name>/st</command-name><local-command-stdout>up</local-command-stdout>"
OutMulti == "<local-command-stdout>a|b</local-command-stdout>"
SysText == "<system-reminder>x</system-reminder>"
NoContent == "(no content)"

\* str.strip() on the vocabulary: " " is the whitespace-only text, " hi " a
\* text with surrounding blanks; every other text has none.
Strip(t) ==
    CASE t = " " -> ""
      [] t = " hi " -> "hi"
      [] OTHER -> t

\* _RE_COMMAND_NAME.search(t): the captured command name, or None.
RE_COMMAND_NAME(t) ==
    CASE t = CmdOnly -> "/clear"
      [] t = CmdOut -> "/st"
      [] OTHER -> None

\* _RE_LOCAL_STDOUT.search(t): the captured output, or None.
RE_LOCAL_STDOUT(t) ==
    CASE t = OutOnly -> "ok"
      [] t = CmdOut -> "up"
      [] t = OutMulti -> "a|b"
      [] OTHER -> None

\* _RE_SYSTEM_TAGS.search(t)
RE_SYSTEM_TAGS(t) == t = SysText

\* "\n" in text, for the captured outputs of the vocabulary ("|" stands for
\* the line break).
HasNewline(t) == t = "a|b"

(***************************************************************************)
(* Records and content blocks.                                             *)
(*   record: [type, content]   content: sequence of blocks                 *)
(*   block:  [btype, id, text]                                             *)
(*     text        text  = the block's "text"                              *)
(*     thinking    text  = the block's "thinking"                          *)
(*     tool_use    id    = the block's "id" ("" when absent),              *)
(*                 text  = input["command"] of a Bash tool                 *)
(*     tool_result id    = "tool_use_id", text = string "content"          *)
(***************************************************************************)
Blk(bt, id, t) == [btype |-> bt, id |-> id, text |-> t]
Rec(ty, c) == [type |-> ty, content |-> c]

\* ParsedEntry.  src, use and at are history fields: src is the position of
\* the block the entry is made from, use the position of the tool_use block
\* whose summary it carries, at the index of the record whose processing
\* appended it.
Entry(role, text, ctype, id, src, use, at) ==
    [role |-> role, text |-> text, content_type |-> ctype, tool_use_id |-> id,
     src |-> src, use |-> use, at |-> at]

\* format_tool_use_summary("Bash", {"command": c})
format_tool_use_summary(blk) ==
    IF blk.text # "" THEN <<"TOOL", "Bash", blk.text>> ELSE <<"TOOL", "Bash">>

\* extract_tool_result_text(content) for a string content
extract_tool_result_text(blk) == blk.text

\* _format_expandable_quote(text)
format_expandable_quote(t) == <<">", t, "||">>

\* extract_text_only(content): the non-empty texts of the text blocks, in
\* order (the source joins them with "\n").
extract_text_only(content) ==
    LET texts == [b \in 1..Len(content) |->
                    IF content[b].btype = "text" THEN content[b].text ELSE ""]
    IN  SelectSeq(texts, LAMBDA t : t # "")

\* _RE_LOCAL_STDOUT.search(text) over the joined text: the capture of the
\* first part that matches, or None.
RECURSIVE SearchStdout(_, _)
SearchStdout(parts, k) ==
    IF k > Len(parts) THEN None
    ELSE IF RE_LOCAL_STDOUT(parts[k]) # None THEN RE_LOCAL_STDOUT(parts[k])
    ELSE SearchStdout(parts, k + 1)

\* _RE_COMMAND_NAME.search(text) over the joined text.
RECURSIVE SearchCommandName(_, _)
SearchCommandName(parts, k) ==
    IF k > Len(parts) THEN None
    ELSE IF RE_COMMAND_NAME(parts[k]) # None THEN RE_COMMAND_NAME(parts[k])
    ELSE SearchCommandName(parts, k + 1)

\* parse_message(data): message_type and tool_name (the command name) of a
\* user or assistant record; text is the captured command output.
parse_message(data) ==
    LET parts == extract_text_only(data.content)
        out == SearchStdout(parts, 1)
        cmd == SearchCommandName(parts, 1)
    IN  IF data.type = "user" /\ parts # <<>> /\ out # None
        THEN [message_type |-> "local_command", tool_name |-> cmd, text |-> Strip(out)]
        ELSE IF data.type = "user" /\ parts # <<>> /\ cmd # None
        THEN [message_type |-> "local_command_invoke", tool_name |-> cmd, text |-> ""]
        ELSE [message_type |-> data.type, tool_name |-> None, text |-> ""]

(***************************************************************************)
(* PendingToolState: a Python dict tool_use_id -> summary, as the sequence *)
(* of its items in insertion order.  Each item also remembers the position *)
(* of the tool_use block that wrote it (history only).                     *)
(***************************************************************************)
PendingIds(p) == {p[k].id : k \in 1..Len(p)}

\* Variant: the summary is not stored.
PendingPut_Drop(p, id, summary, pos) == p

\* pending_tools[tool_id] = summary: a new key is appended, an existing key
\* keeps its place and takes the new value.
PendingPut(p, id, summary, pos) ==
    IF id \in PendingIds(p)
    THEN [k \in 1..Len(p) |->
            IF p[k].id = id THEN [id |-> id, summary |-> summary, use |-> pos] ELSE p[k]]
    ELSE Append(p, [id |-> id, summary |-> summary, use |-> pos])

\* The item removed by pending_tools.pop(tool_use_id, None), as a sequence of
\* zero or one items.
PendingGet(p, id) == SelectSeq(p, LAMBDA q : q.id = id)

\* Variant: the summary is looked up but not removed (get for pop).
PendingPop_Keep(p, id) == p

\* The dict after pending_tools.pop(tool_use_id, None)
PendingPop(p, id) == SelectSeq(p, LAMBDA q : q.id # id)

\* Variant: the summaries are flushed last inserted first.
FlushPending_Reversed(p, i) ==
    [k \in 1..Len(p) |->
        Entry("assistant", p[Len(p) + 1 - k].summary, "tool_use", p[Len(p) + 1 - k].id,
              p[Len(p) + 1 - k].use, p[Len(p) + 1 - k].use, i)]

\* Variant: the pending state is cleared without an entry.
FlushPending_Drop(p, i) == <<>>

\* for tool_summary in pending_tools.values(): result.append(ParsedEntry(
\*     role="assistant", text=tool_summary, content_type="tool_use"))
FlushPending(p, i) ==
    [k \in 1..Len(p) |->
        Entry("assistant", p[k].summary, "tool_use", p[k].id, p[k].use, p[k].use, i)]
(***************************************************************************)
(* parse_entries, one record at a time.  The loop state is                 *)
(*   [result, pending, last_cmd_name].                                     *)
(***************************************************************************)

\* Variant: the placeholder does not look at has_text.
placeholder_due_Always(has_text) == TRUE

\* elif not has_text: (line 468) -- an empty thinking block gets its
\* placeholder when no text entry of the record was appended so far.
placeholder_due(has_text) == ~has_text

\* The content blocks of an assistant record (the loop at lines 436-472),
\* from block b on; i is the record's index.
RECURSIVE AssistantBlocks(_, _, _, _, _)
AssistantBlocks(content, b, st, has_text, i) ==
    IF b > Len(content) THEN st
    ELSE
      LET blk == content[b]
          t == Strip(blk.text)
          summary == format_tool_use_summary(blk)
      IN
      CASE blk.btype = "text" ->
             IF t # "" /\ t # NoContent
             THEN AssistantBlocks(content, b + 1,
                    [st EXCEPT !.result = Append(@,
                        Entry("assistant", <<t>>, "text", None, <<i, b>>, NoPos, i))],
                    TRUE, i)
             ELSE AssistantBlocks(content, b + 1, st, has_text, i)
        [] blk.btype = "tool_use" ->
             IF blk.id # ""
             THEN AssistantBlocks(content, b + 1,
                    [st EXCEPT !.pending = PendingPut(@, blk.id, summary, <<i, b>>)],
                    has_text, i)
             ELSE AssistantBlocks(content, b + 1,
                    [st EXCEPT !.result = Append(@,
                        Entry("assistant", summary, "tool_use", None, <<i, b>>, <<i, b>>, i))],
                    has_text, i)
        [] blk.btype = "thinking" ->
             IF blk.text # ""
             THEN AssistantBlocks(content, b + 1,
                    [st EXCEPT !.result = Append(@,
                        Entry("assistant", <<"THINK">> \o format_expandable_quote(blk.text),
                              "thinking", None, <<i, b>>, NoPos, i))],
                    has_text, i)
             ELSE IF placeholder_due(has_text)
             THEN AssistantBlocks(content, b + 1,
                    [st EXCEPT !.result = Append(@,
                        Entry("assistant", <<"THINK (thinking)">>, "thinking", None,
                              <<i, b>>, NoPos, i))],
                    has_text, i)
             ELSE AssistantBlocks(content, b + 1, st, has_text, i)
        [] OTHER -> AssistantBlocks(content, b + 1, st, has_text, i)

\* Variant: a result without a pending summary gives no entry.
ToolResultEntry_MatchedOnly(p, blk, i, b) ==
    LET got == PendingGet(p, blk.id)
        result_text == extract_tool_result_text(blk)
    IN  IF got # <<>>
        THEN <<Entry("assistant",
                     got[1].summary \o
                       (IF result_text # "" THEN format_expandable_quote(result_text)
                                           ELSE <<>>),
                     "tool_result", blk.id, <<i, b>>, got[1].use, i)>>
        ELSE <<>>

\* The entry of one tool_result block (lines 485-502), as a sequence of zero
\* or one entries; p is the pending state before the pop.
ToolResultEntry(p, blk, i, b) ==
    LET got == PendingGet(p, blk.id)
        result_text == extract_tool_result_text(blk)
    IN  IF got # <<>>
        THEN <<Entry("assistant",
                     got[1].summary \o
                       (IF result_text # "" THEN format_expandable_quote(result_text)
                                           ELSE <<>>),
                     "tool_result", blk.id, <<i, b>>, got[1].use, i)>>
        ELSE IF result_text # ""
        THEN <<Entry("assistant", format_expandable_quote(result_text),
                     "tool_result", blk.id, <<i, b>>, NoPos, i)>>
        ELSE <<>>

\* The content blocks of a user record (the loop at lines 478-507), from
\* block b on; st is [result, pending, user_text_parts].
RECURSIVE UserBlocks(_, _, _, _)
UserBlocks(content, b, st, i) ==
    IF b > Len(content) THEN st
    ELSE
      LET blk == content[b]
          t == Strip(blk.text)
      IN
      CASE blk.btype = "tool_result" ->
             UserBlocks(content, b + 1,
                [st EXCEPT !.result = @ \o ToolResultEntry(st.pending, blk, i, b),
                           !.pending = PendingPop(@, blk.id)], i)
        [] blk.btype = "text" ->
             IF t # "" /\ ~RE_SYSTEM_TAGS(t)
             THEN UserBlocks(content, b + 1,
                    [st EXCEPT !.user_text_parts = Append(@, t)], i)
             ELSE UserBlocks(content, b + 1, st, i)
        [] OTHER -> UserBlocks(content, b + 1, st, i)

\* The user-role entry of a user record (lines 516-524), as a sequence of
\* zero or one entries.  It is appended after the last block of the record.
UserTextEntry(parts, i, nblocks) ==
    IF parts # <<>> /\ SearchStdout(parts, 1) = None /\ SearchCommandName(parts, 1) = None
    THEN <<Entry("user", parts, "text", None, <<i, nblocks>>, NoPos, i)>>
    ELSE <<>>

\* The local_command entry (lines 405-422).
LocalCommandEntry(parsed, last_cmd_name, i) ==
    LET cmd == IF parsed.tool_name # None THEN parsed.tool_name
               ELSE IF last_cmd_name # None THEN last_cmd_name ELSE ""
        body == IF HasNewline(parsed.text) THEN <<"FENCE", parsed.text, "FENCE">>
                ELSE <<"CODE", parsed.text, "CODE">>
    IN  Entry("assistant", (IF cmd # "" THEN <<"PROMPT", cmd>> ELSE <<>>) \o body,
              "local_command", None, <<i, 1>>, NoPos, i)

\* Variant: the flush comes after the content blocks.
AssistantRecord_FlushLast(st, data, i) ==
    LET a == AssistantBlocks(data.content, 1,
                [result |-> st.result, pending |-> <<>>, last_cmd_name |-> None],
                FALSE, i)
    IN  [a EXCEPT !.result = @ \o FlushPending(st.pending, i)]

\* The assistant rule (lines 427-472): flush what is pending, then the
\* content blocks.
AssistantRecord(st, data, i) ==
    AssistantBlocks(data.content, 1,
        [result |-> st.result \o FlushPending(st.pending, i),
         pending |-> <<>>,
         last_cmd_name |-> None],
        FALSE, i)

\* Variant: the user text is appended before the entries of the blocks.
UserRecord_TextFirst(st, data, i) ==
    LET u == UserBlocks(data.content, 1,
                [result |-> <<>>, pending |-> st.pending, user_text_parts |-> <<>>], i)
    IN  [result |-> st.result \o UserTextEntry(u.user_text_parts, i, Len(data.content))
                    \o u.result \o FlushPending(u.pending, i),
         pending |-> <<>>,
         last_cmd_name |-> None]

\* Variant: no flush at the end of a user record.
UserRecord_NoFlush(st, data, i) ==
    LET u == UserBlocks(data.content, 1,
                [result |-> st.result, pending |-> st.pending,
                 user_text_parts |-> <<>>], i)
    IN  [result |-> u.result \o UserTextEntry(u.user_text_parts, i, Len(data.content)),
         pending |-> u.pending,
         last_cmd_name |-> None]

\* The tool-result rule (lines 474-524): the content blocks, then the flush
\* of what is still pending, then the user text.
UserRecord(st, data, i) ==
    LET u == UserBlocks(data.content, 1,
                [result |-> st.result, pending |-> st.pending,
                 user_text_parts |-> <<>>], i)
    IN  [result |-> u.result \o FlushPending(u.pending, i)
                    \o UserTextEntry(u.user_text_parts, i, Len(data.content)),
         pending |-> <<>>,
         last_cmd_name |-> None]

\* Variant: a record of another type flushes what is pending.
ProcessRecord_IgnoredFlushes(st, data, i) ==
    IF data.type \notin {"user", "assistant"}
    THEN [st EXCEPT !.result = @ \o FlushPending(st.pending, i), !.pending = <<>>]
    ELSE
      LET parsed == parse_message(data) IN
      IF parsed.message_type = "local_command_invoke"
      THEN [st EXCEPT !.last_cmd_name = parsed.tool_name]
      ELSE IF parsed.message_type = "local_command"
      THEN [st EXCEPT !.result = Append(@, LocalCommandEntry(parsed, st.last_cmd_name, i)),
                      !.last_cmd_name = None]
      ELSE IF data.type = "assistant"
      THEN AssistantRecord(st, data, i)
      ELSE UserRecord(st, data, i)

\* One iteration of the record loop of parse_entries (lines 388-524).
ProcessRecord(st, data, i) ==
    IF data.type \notin {"user", "assistant"} THEN st
    ELSE
      LET parsed == parse_message(data) IN
      IF parsed.message_type = "local_command_invoke"
      THEN [st EXCEPT !.last_cmd_name = parsed.tool_name]
      ELSE IF parsed.message_type = "local_command"
      THEN [st EXCEPT !.result = Append(@, LocalCommandEntry(parsed, st.last_cmd_name, i)),
                      !.last_cmd_name = None]
      ELSE IF data.type = "assistant"
      THEN AssistantRecord(st, data, i)
      ELSE UserRecord(st, data, i)

\* The record loop of parse_entries (line 388), from entry k on; the record
\* entries[k] has index base + k.
RECURSIVE RecordLoop(_, _, _, _)
RecordLoop(entries, k, st, base) ==
    IF k > Len(entries) THEN st
    ELSE RecordLoop(entries, k + 1, ProcessRecord(st, entries[k], base + k), base)

\* parse_entries(entries, pending_tools=carry) as SessionMonitor calls it
\* (session_monitor.py:261-263): the loop starts from the carried pending
\* state and what is pending at the end of the batch is returned, not
\* emitted.  transcript_parser.py holds the one-argument form, whose loop
\* body is the same; the carry is taken from the specification (4.4 rule 4).
\* base is the number of records reconstructed before this batch.
parse_entries(entries, pending_tools, base) ==
    LET st == RecordLoop(entries, 1,
                [result |-> <<>>, pending |-> pending_tools, last_cmd_name |-> None],
                base)
    IN  [entries |-> st.result, remaining |-> st.pending]

(***************************************************************************)
(* State.                                                                  *)
(***************************************************************************)
VARIABLES
    pHist,        \* reconstructor: every record handed to parse_entries so far
    pPending,     \* reconstructor: _pending_tools[session_id]
    pOut,         \* reconstructor: every entry returned so far
    pCycleStart,  \* reconstructor: Len(pHist) when the last cycle began
    pOutStart,    \* reconstructor: Len(pOut) when the last cycle began
    pCarryIn,     \* reconstructor: pPending when the last cycle began
    file,         \* monitor: the lines of each session's transcript file
    mtime,        \* monitor: st_mtime of each file
    tracked,      \* monitor: state.tracked_sessions (TrackedSession per id)
    pend,         \* monitor: _pending_tools
    dirty,        \* monitor: MonitorState's dirty flag
    disk,         \* monitor: the durable monitor-state file
    pc,           \* monitor: where _monitor_loop stands
    queue,        \* monitor: new_messages not yet passed to the callback
    cMode,        \* last cycle: the outcome of each session's file access
    cBefore,      \* last cycle: tracked when the cycle began
    cCarry,       \* last cycle: _pending_tools when the cycle began
    cRead,        \* last cycle: what _read_new_lines returned per session
    cAborted,     \* last cycle: check_for_updates left by an exception
    cDelivered,   \* last cycle: the messages passed to the callback, in order
    pReplay,      \* reconstructor: the last replay after a restart
    running,      \* lifecycle: SessionMonitor._running
    task,         \* lifecycle: SessionMonitor._task (0: None)
    tasks,        \* lifecycle: every _monitor_loop task created so far
    calls,        \* lifecycle: number of start() and stop() calls so far
    hOp,          \* lifecycle: the last step taken and what it did
    hHanded,      \* lifecycle: <<session, line>> of the events passed to the callback
    hFirst,       \* lifecycle: line count of each session when it was first seen
    scanIn,       \* scanner: the windows and the project directory scan_projects sees
    scanOut,      \* scanner: the last result of scan_projects and the files then read
    recIn,        \* record loop: the carried pending state and the lines of one read
    recOut,       \* record loop: the loop state after each record, and the offset
    session_map,  \* hook: the content of ~/.ccmux/session_map.json
    lock,         \* hook: the process holding the flock on session_map.lock (0: none)
    hooks,        \* hook: every hook process, where it is and what it holds
    window_states,\* bot: SessionManager.window_states, the session id of each window
    hkOp,         \* hook: the last step taken, by which process, with which input
    hkLast,       \* hook: the process that last wrote each window's entry (0: none)
    hkCleared,    \* bot: the window was cleared and no hook has written it since
    splitIn,      \* split_message: the text and max_length of one call
    splitOut,     \* split_message: the chunks returned
    hPassed       \* tailing: the records of each file's present content passed to parse_entries so far

parseVars == <<pHist, pPending, pOut, pCycleStart, pOutStart, pCarryIn>>
monVars == <<file, mtime, tracked, pend, dirty, disk, pc, queue>>
cycleVars == <<cMode, cBefore, cCarry, cRead, cAborted, cDelivered>>
replayVars == <<pReplay>>
lifeVars == <<running, task, tasks, calls, hOp, hHanded, hFirst>>
scanVars == <<scanIn, scanOut>>
recVars == <<recIn, recOut>>
hookVars == <<session_map, lock, hooks, window_states, hkOp, hkLast, hkCleared>>
splitVars == <<splitIn, splitOut>>
tailVars == <<hPassed>>
extVars == <<replayVars, lifeVars, scanVars, recVars, hookVars, splitVars, tailVars>>
vars == <<parseVars, monVars, cycleVars, extVars>>

\* Records of the transcripts.
A_use1 == Rec("assistant", <<Blk("tool_use", "t1", "ls")>>)
A_multi == Rec("assistant",
    <<Blk("tool_use", "t2", "pwd"), Blk("tool_use", "t1", "ls"), Blk("text", "", "hi")>>)
A_reuse == Rec("assistant", <<Blk("tool_use", "t1", "ls"), Blk("tool_use", "t1", "pwd")>>)
A_text == Rec("assistant", <<Blk("text", "", "hi")>>)
U_res1 == Rec("user", <<Blk("tool_result", "t1", "r")>>)
U_res21 == Rec("user",
    <<Blk("text", "", "hi"), Blk("tool_result", "t2", ""), Blk("tool_result", "t1", "r")>>)
U_text == Rec("user", <<Blk("text", "", "hi")>>)
U_local == Rec("user", <<Blk("text", "", CmdOut)>>)
R_other == Rec("summary", <<>>)

(***************************************************************************)
(* The Offset Tracker and the poll cycle of SessionMonitor.                *)
(***************************************************************************)
Sessions == <<"s1", "s2">>
SessionIds == {Sessions[k] : k \in DOMAIN Sessions}

\* A line of a transcript file: a JSON object (kind "json", rec the decoded
\* record), text that is no JSON (kind "malformed"), a blank line, or the
\* beginning of a JSON object whose writer has not yet written the rest and
\* the line terminator (kind "partial", rec the record being written).
Line(kind, rec) == [kind |-> kind, rec |-> rec]
R_none == Rec("none", <<>>)
L_bad == Line("malformed", R_none)
L_blank == Line("blank", R_none)

\* TranscriptParser.parse_line(line), as a sequence of zero or one records:
\* a blank line and a line that json.loads rejects (text that is no JSON, an
\* object not yet written to its end) give None.
parse_line(line) ==
    IF line.kind = "blank" THEN <<>>
    ELSE IF line.kind \in {"malformed", "partial"} THEN <<>>
    ELSE <<line.rec>>

\* The outcome of one session's file access in one cycle.
\*   ok            every call succeeds
\*   stat_oserror  stat() raises OSError (check_for_updates line 232)
\*   open_oserror  open() or the line count raises OSError (lines 192-195)
\*   read_oserror  the scan raises OSError after k lines (lines 208-215)
\*   decode_error  the line count raises UnicodeDecodeError (line 195, the
\*                 bytes at hand are no UTF-8: a character half written):
\*                 a ValueError, which no handler of check_for_updates
\*                 catches
Mode(kind, k) == [kind |-> kind, k |-> k]
OK == Mode("ok", 0)

\* Variant: only the lines that decode are counted.
RECURSIVE ScanLines_SkipBad(_, _, _, _)
ScanLines_SkipBad(f, from, to, acc) ==
    IF from > to THEN acc
    ELSE ScanLines_SkipBad(f, from + 1, to,
            [entries |-> acc.entries \o parse_line(f[from]),
             line_count |-> acc.line_count + Len(parse_line(f[from]))])

\* for line in f: line_count += 1; data = parse_line(line); if data:
\* new_entries.append(data)  -- over the lines f[from..to]
RECURSIVE ScanLines(_, _, _, _)
ScanLines(f, from, to, acc) ==
    IF from > to THEN acc
    ELSE ScanLines(f, from + 1, to,
            [entries |-> acc.entries \o parse_line(f[from]),
             line_count |-> acc.line_count + 1])

\* Variant: no truncation check.
read_new_lines_NoReset(last_line_count, f, mode) ==
    IF mode.kind = "open_oserror"
    THEN [entries |-> <<>>, last_line_count |-> last_line_count]
    ELSE
      LET upto == IF mode.kind = "read_oserror" /\ last_line_count + mode.k < Len(f)
                  THEN last_line_count + mode.k ELSE Len(f)
          scan == ScanLines(f, last_line_count + 1, upto,
                            [entries |-> <<>>, line_count |-> last_line_count])
      IN  IF mode.kind = "read_oserror"
          THEN [entries |-> scan.entries, last_line_count |-> last_line_count]
          ELSE [entries |-> scan.entries, last_line_count |-> scan.line_count]

\* Variant: the line count reached by the scan is not stored.
read_new_lines_NoStore(last_line_count, f, mode) ==
    IF mode.kind = "open_oserror"
    THEN [entries |-> <<>>, last_line_count |-> last_line_count]
    ELSE
      LET start == IF Len(f) < last_line_count THEN 0 ELSE last_line_count
          upto == IF mode.kind = "read_oserror" /\ start + mode.k < Len(f)
                  THEN start + mode.k ELSE Len(f)
          scan == ScanLines(f, start + 1, upto, [entries |-> <<>>, line_count |-> start])
      IN  [entries |-> scan.entries, last_line_count |-> start]

\* _read_new_lines(session, file_path): the records returned and the value
\* session.last_line_count is left with.
read_new_lines(last_line_count, f, mode) ==
    IF mode.kind = "open_oserror"
    THEN [entries |-> <<>>, last_line_count |-> last_line_count]
    ELSE
      LET current_total == Len(f)
          start == IF current_total < last_line_count THEN 0 ELSE last_line_count
          upto == IF mode.kind = "read_oserror"
                  THEN IF start + mode.k < current_total THEN start + mode.k
                       ELSE current_total
                  ELSE current_total
          scan == ScanLines(f, start + 1, upto, [entries |-> <<>>, line_count |-> start])
      IN  IF mode.kind = "read_oserror"
          THEN [entries |-> scan.entries, last_line_count |-> start]
          ELSE [entries |-> scan.entries, last_line_count |-> scan.line_count]

\* _count_lines(file_path)
count_lines(f, mode) ==
    IF mode.kind \in {"open_oserror", "read_oserror"} THEN 0 ELSE Len(f)

\* TrackedSession; known is FALSE while state.get_session gives None.
Untracked == [known |-> FALSE, last_mtime |-> 0, last_line_count |-> 0]
TrackedSession(m, n) == [known |-> TRUE, last_mtime |-> m, last_line_count |-> n]

\* NewMessage(...) of an entry (lines 272-280); src is the entry's history
\* field.
NewMessage(sid, e) ==
    [session_id |-> sid, text |-> e.text, content_type |-> e.content_type,
     tool_use_id |-> e.tool_use_id, is_complete |-> TRUE, src |-> e.src]

\* The filter of lines 269-280: entries without text and user-role entries
\* make no message.
MessagesOf(sid, entries) ==
    LET kept == SelectSeq(entries, LAMBDA e : ~(e.text = <<>> \/ e.role = "user"))
    IN  [k \in 1..Len(kept) |-> NewMessage(sid, kept[k])]

\* A transcript line whose JSON is a non-empty array, not an object:
\* json.loads accepts it and parse_line returns it (a truthy value).
R_list == Rec("nonobject", <<>>)
L_list == Line("json", R_list)

\* parse_entries raises AttributeError on an entry that is no dict: its
\* first step on each entry is data.get("type") (get_message_type,
\* transcript_parser.py:63, called at line 389).  No handler of
\* check_for_updates catches it.
parse_raises(entries) == \E k \in DOMAIN entries : entries[k].type = "nonobject"

\* Variant: one pending dict for all sessions.
ProcessSession_Shared(acc, sid, f, m, mode) ==
    LET t == acc.tracked[sid] IN
    IF acc.aborted \/ mode.kind = "stat_oserror" THEN acc
    ELSE IF ~t.known
    THEN IF mode.kind = "decode_error"
         THEN [acc EXCEPT !.aborted = TRUE]
         ELSE [acc EXCEPT !.tracked[sid] = TrackedSession(m, count_lines(f, mode)),
                          !.dirty = TRUE]
    ELSE IF m <= t.last_mtime THEN acc
    ELSE IF mode.kind = "decode_error"
    THEN [acc EXCEPT !.aborted = TRUE]
    ELSE
      LET got == read_new_lines(t.last_line_count, f, mode)
          carry == acc.pend[Sessions[1]]
          parsed == parse_entries(got.entries, carry, 0)
      IN  IF parse_raises(got.entries)
          THEN [acc EXCEPT !.aborted = TRUE,
                           !.tracked[sid].last_line_count = got.last_line_count,
                           !.read[sid] = got.entries]
          ELSE [acc EXCEPT !.tracked[sid] = TrackedSession(m, got.last_line_count),
                           !.pend[Sessions[1]] = parsed.remaining,
                           !.dirty = TRUE,
                           !.new_messages = @ \o MessagesOf(sid, parsed.entries),
                           !.read[sid] = got.entries]

\* The body of the session loop of check_for_updates (lines 231-287) for
\* session sid with file f, modification time m and access outcome mode.
\* acc holds the monitor's state and the cycle's new_messages.
\* _read_new_lines assigns session.last_line_count on the TrackedSession
\* object that state.get_session returned (line 216), before parse_entries
\* runs (line 261): when parse_entries raises, the offset has moved while
\* last_mtime, the pending tools, the dirty flag and new_messages have not.
\* Variant: a file whose mtime equals last_mtime is read again.
ProcessSession_GateEq(acc, sid, f, m, mode) ==
    LET t == acc.tracked[sid] IN
    IF acc.aborted \/ mode.kind = "stat_oserror" THEN acc
    ELSE IF ~t.known
    THEN IF mode.kind = "decode_error"
         THEN [acc EXCEPT !.aborted = TRUE]
         ELSE [acc EXCEPT !.tracked[sid] = TrackedSession(m, count_lines(f, mode)),
                          !.dirty = TRUE]
    ELSE IF m < t.last_mtime THEN acc
    ELSE IF mode.kind = "decode_error"
    THEN [acc EXCEPT !.aborted = TRUE]
    ELSE
      LET got == read_new_lines(t.last_line_count, f, mode)
          carry == acc.pend[sid]
          parsed == parse_entries(got.entries, carry, 0)
      IN  IF parse_raises(got.entries)
          THEN [acc EXCEPT !.aborted = TRUE,
                           !.tracked[sid].last_line_count = got.last_line_count,
                           !.read[sid] = got.entries]
          ELSE [acc EXCEPT !.tracked[sid] = TrackedSession(m, got.last_line_count),
                           !.pend[sid] = parsed.remaining,
                           !.dirty = TRUE,
                           !.new_messages = @ \o MessagesOf(sid, parsed.entries),
                           !.read[sid] = got.entries]

ProcessSession(acc, sid, f, m, mode) ==
    LET t == acc.tracked[sid] IN
    IF acc.aborted \/ mode.kind = "stat_oserror" THEN acc
    ELSE IF ~t.known
    THEN IF mode.kind = "decode_error"
         THEN [acc EXCEPT !.aborted = TRUE]
         ELSE [acc EXCEPT !.tracked[sid] = TrackedSession(m, count_lines(f, mode)),
                          !.dirty = TRUE]
    ELSE IF m <= t.last_mtime THEN acc
    ELSE IF mode.kind = "decode_error"
    THEN [acc EXCEPT !.aborted = TRUE]
    ELSE
      LET got == read_new_lines(t.last_line_count, f, mode)
          carry == acc.pend[sid]
          parsed == parse_entries(got.entries, carry, 0)
      IN  IF parse_raises(got.entries)
          THEN [acc EXCEPT !.aborted = TRUE,
                           !.tracked[sid].last_line_count = got.last_line_count,
                           !.read[sid] = got.entries]
          ELSE [acc EXCEPT !.tracked[sid] = TrackedSession(m, got.last_line_count),
                           !.pend[sid] = parsed.remaining,
                           !.dirty = TRUE,
                           !.new_messages = @ \o MessagesOf(sid, parsed.entries),
                           !.read[sid] = got.entries]

\* for session_info in sessions: ...
RECURSIVE SessionLoop(_, _, _)
SessionLoop(acc, k, modes) ==
    IF k > Len(Sessions) THEN acc
    ELSE SessionLoop(
            ProcessSession(acc, Sessions[k], file[Sessions[k]], mtime[Sessions[k]],
                           modes[Sessions[k]]),
            k + 1, modes)

MaxLines == 3
MaxWrites == 3

\* Every write of a producer advances the file's modification time by one.
Writes == mtime["s1"] + mtime["s2"]

\* The lines a producer writes to each file.
LinesOf(sid) ==
    IF sid = "s1"
    THEN {L_bad, Line("json", A_text), Line("json", U_text)}
    ELSE {L_blank, Line("json", A_text)}

\* The outcomes of a file access; the scan fails after one line.
Modes ==
    {OK, Mode("stat_oserror", 0), Mode("open_oserror", 0), Mode("decode_error", 0),
     Mode("read_oserror", 1)}

\* The sessions whose file check_for_updates opens in a cycle that starts
\* now: the ones not yet tracked and the ones whose file is newer than
\* last_mtime.
Opens(sid) == ~tracked[sid].known \/ mtime[sid] > tracked[sid].last_mtime

NoRead == [sid \in SessionIds |-> <<>>]
AllOK == [sid \in SessionIds |-> OK]

CycleIdle ==
    /\ cMode = AllOK
    /\ cBefore = tracked
    /\ cCarry = pend
    /\ cRead = NoRead
    /\ cAborted = FALSE
    /\ cDelivered = <<>>

ParseIdle ==
    /\ pHist = <<>>
    /\ pPending = <<>>
    /\ pOut = <<>>
    /\ pCycleStart = 0
    /\ pOutStart = 0
    /\ pCarryIn = <<>>

\* SessionMonitor.__init__ with an empty state file, every transcript empty,
\* and the loop about to run its first cycle.
MonInit ==
    /\ file = [sid \in SessionIds |-> <<>>]
    /\ mtime = [sid \in SessionIds |-> 0]
    /\ tracked = [sid \in SessionIds |-> Untracked]
    /\ pend = [sid \in SessionIds |-> <<>>]
    /\ dirty = FALSE
    /\ disk = [sid \in SessionIds |-> Untracked]
    /\ pc = "sleep"
    /\ queue = <<>>
    /\ CycleIdle

\* No restart has replayed anything.
NoReplay == [on |-> FALSE, from |-> 0, upto |-> 0, out |-> <<>>]

ReplayIdle == pReplay = NoReplay

MaxTasks == 2
MaxCalls == 3
MaxLifeWrites == 2

TaskIds == 1..MaxTasks

\* A task not yet created.  pc: where the task's coroutine is suspended
\* ("new": created and not yet run; "callback": inside the callback awaited
\* at line 320; "sleep": in asyncio.sleep, line 327; "done").  cancel: the
\* task's cancel() was called and the CancelledError is not yet delivered.
\* q: the messages of new_messages from the one the callback is running for
\* on.  msgs, handed, outcomes, log and end are history fields: the
\* messages of the current cycle, those the callback was invoked for, how
\* the finished callbacks ended, the steps of the cycle in order, and why
\* the task ended.
NoTask ==
    [pc |-> "none", cancel |-> FALSE, q |-> <<>>, msgs |-> <<>>, handed |-> <<>>,
     outcomes |-> <<>>, log |-> <<>>, end |-> ""]

\* The last step: op its kind, t the task that took it, persist what became
\* of the state file ("none", "written", "failed"), changed whether a
\* tracked session was created or updated, was_dirty the dirty flag before,
\* failed whether an exception ended the cycle, noop whether start()
\* returned at line 334.
Op(op, t, persist, changed, was_dirty, failed, noop) ==
    [op |-> op, t |-> t, persist |-> persist, changed |-> changed,
     was_dirty |-> was_dirty, failed |-> failed, noop |-> noop]

LifeIdle ==
    /\ running = FALSE
    /\ task = 0
    /\ tasks = [t \in TaskIds |-> NoTask]
    /\ calls = 0
    /\ hOp = Op("init", 0, "none", FALSE, FALSE, FALSE, FALSE)
    /\ hHanded = {}
    /\ hFirst = [sid \in SessionIds |-> 0]

\* The parts of the state that a specification leaves alone.
NoScanIn ==
    [windows |-> {}, index |-> [kind |-> "none", originalPath |-> "", entries |-> <<>>],
     files |-> {}, cwd |-> "", dir_path |-> ""]

NoScanOut == [done |-> FALSE, sessions |-> <<>>, read |-> {}]

ScanIdle == scanIn = NoScanIn /\ scanOut = NoScanOut

NoRecIn == [carry |-> <<>>, lines |-> <<>>]

NoRecOut == [done |-> FALSE, steps |-> <<>>, last_line_count |-> 0]

RecIdle == recIn = NoRecIn /\ recOut = NoRecOut

MaxHooks == 2

HookIds == 1..MaxHooks
Windows == {"w1", "w2"}

\* A session map entry {"session_id": ..., "cwd": ...}; texts are tuples of
\* characters, <<>> the empty string.  NoEntry: the window has no entry.
MapEntry(session_id, cwd) == [session_id |-> session_id, cwd |-> cwd]
NoEntry == MapEntry(<<>>, <<>>)

\* The payload and environment of one hook process.
Payload(valid_json, session_id, cwd, event, pane) ==
    [valid_json |-> valid_json, session_id |-> session_id, cwd |-> cwd,
     hook_event_name |-> event, pane |-> pane]
NoPayload == Payload(FALSE, <<>>, <<>>, "", "")

\* A hook process not yet started.  pc: "new", "wait" (validated, about to
\* call flock, line 71), "locked" (holds the lock, about to read the map,
\* line 74), "read" (about to write, line 80), "written" (about to unlock,
\* line 89), "done".  session_map is the process's own dict (line 73).
NoHook ==
    [pc |-> "new", window_name |-> "", entry |-> NoEntry,
     session_map |-> [w \in Windows |-> NoEntry]]

HookIdle ==
    /\ session_map = [w \in Windows |-> NoEntry]
    /\ lock = 0
    /\ hooks = [h \in HookIds |-> NoHook]
    /\ window_states = [w \in Windows |-> <<>>]
    /\ hkOp = [step |-> "init", h |-> 0, payload |-> NoPayload]
    /\ hkLast = [w \in Windows |-> 0]
    /\ hkCleared = [w \in Windows |-> FALSE]

NoSplitIn == [text |-> <<>>, max_length |-> 1]
NoSplitOut == [done |-> FALSE, chunks |-> <<>>]

SplitIdle == splitIn = NoSplitIn /\ splitOut = NoSplitOut

TailIdle == hPassed = [sid \in SessionIds |-> <<>>]

ExtIdle == ReplayIdle /\ LifeIdle /\ ScanIdle /\ RecIdle /\ HookIdle /\ SplitIdle /\ TailIdle

Init == MonInit /\ ParseIdle /\ ExtIdle

\* The producer appends one line to a transcript.
AppendLine(sid, line) ==
    /\ pc = "sleep"
    /\ Len(file[sid]) < MaxLines
    /\ Writes < MaxWrites
    /\ file' = [file EXCEPT ![sid] = Append(@, line)]
    /\ mtime' = [mtime EXCEPT ![sid] = @ + 1]
    /\ UNCHANGED <<tracked, pend, dirty, disk, pc, queue, cycleVars, parseVars, extVars>>

\* The producer cuts a transcript down to its first n lines (n = 0: cleared).
Truncate(sid, n) ==
    /\ pc = "sleep"
    /\ n < Len(file[sid])
    /\ Writes < MaxWrites
    /\ file' = [file EXCEPT ![sid] = SubSeq(@, 1, n)]
    /\ mtime' = [mtime EXCEPT ![sid] = @ + 1]
    /\ UNCHANGED <<tracked, pend, dirty, disk, pc, queue, cycleVars, parseVars, extVars>>

\* The file's modification time changes, its lines do not.
Touch(sid) ==
    /\ pc = "sleep"
    /\ Writes < MaxWrites
    /\ mtime' = [mtime EXCEPT ![sid] = @ + 1]
    /\ UNCHANGED <<file, tracked, pend, dirty, disk, pc, queue, cycleVars, parseVars, extVars>>

\* One pass of _monitor_loop up to the delivery loop: check_for_updates
\* (lines 221-290) under the access outcomes modes.  When an exception leaves
\* check_for_updates, new_messages is lost and save_if_dirty is not reached
\* (the handler at lines 324-325 only logs).
Cycle(modes) ==
    LET acc == SessionLoop(
                  [tracked |-> tracked, pend |-> pend, dirty |-> dirty,
                   new_messages |-> <<>>, aborted |-> FALSE, read |-> NoRead],
                  1, modes)
    IN  /\ pc = "sleep"
        /\ \A sid \in SessionIds : modes[sid] # OK => Opens(sid)
        /\ \A sid \in SessionIds : modes[sid].kind = "decode_error" => file[sid] # <<>>
        /\ tracked' = acc.tracked
        /\ pend' = acc.pend
        /\ IF acc.aborted
           THEN /\ dirty' = acc.dirty
                /\ disk' = disk
                /\ queue' = <<>>
           ELSE /\ dirty' = FALSE
                /\ disk' = IF acc.dirty THEN acc.tracked ELSE disk
                /\ queue' = acc.new_messages
        /\ pc' = "deliver"
        /\ cMode' = modes
        /\ cBefore' = tracked
        /\ cCarry' = pend
        /\ cRead' = acc.read
        /\ cAborted' = acc.aborted
        /\ cDelivered' = <<>>
        /\ UNCHANGED <<file, mtime, parseVars, extVars>>

\* await self._message_callback(msg) for the next message (lines 312-322).
Deliver ==
    /\ pc = "deliver"
    /\ queue # <<>>
    /\ cDelivered' = Append(cDelivered, Head(queue))
    /\ queue' = Tail(queue)
    /\ UNCHANGED <<file, mtime, tracked, pend, dirty, disk, pc,
                   cMode, cBefore, cCarry, cRead, cAborted, parseVars, extVars>>

\* The delivery loop is over: asyncio.sleep(poll_interval) (line 327).
Sleep ==
    /\ pc = "deliver"
    /\ queue = <<>>
    /\ pc' = "sleep"
    /\ cMode' = AllOK
    /\ cBefore' = tracked
    /\ cCarry' = pend
    /\ cRead' = NoRead
    /\ cAborted' = FALSE
    /\ cDelivered' = <<>>
    /\ UNCHANGED <<file, mtime, tracked, pend, dirty, disk, queue, parseVars, extVars>>

Next ==
    \/ \E sid \in SessionIds : \E line \in LinesOf(sid) : AppendLine(sid, line)
    \/ \E sid \in SessionIds : \E n \in 0..(MaxLines - 1) : Truncate(sid, n)
    \/ \E sid \in SessionIds : Touch(sid)
    \/ \E modes \in [SessionIds -> Modes] : Cycle(modes)
    \/ Deliver
    \/ Sleep

Spec == Init /\ [][Next]_vars

\* The same monitor over transcripts of tool records: both sessions use the
\* same tool id, and every file access succeeds.
IsoLinesOf(sid) == {Line("json", A_use1), Line("json", U_res1)}

IsoNext ==
    \/ \E sid \in SessionIds : \E line \in IsoLinesOf(sid) : AppendLine(sid, line)
    \/ Cycle(AllOK)
    \/ Deliver
    \/ Sleep

SpecIso == Init /\ [][IsoNext]_vars

(***************************************************************************)
(* SpecParse: the Entry Reconstructor of one session, fed the records of a *)
(* growing transcript in arbitrary poll-cycle batches.                     *)
(***************************************************************************)
MaxHist == 3
MaxBatch == 3

ParseRecords ==
    {A_use1, A_multi, A_reuse, A_text, U_res1, U_res21, U_text, U_local, R_other}

ToolIds == {"t1", "t2"}

RECURSIVE SeqsUpTo(_, _)
SeqsUpTo(S, n) ==
    IF n = 0 THEN {<<>>}
    ELSE LET shorter == SeqsUpTo(S, n - 1)
         IN  shorter \cup {Append(q, x) : q \in {r \in shorter : Len(r) = n - 1}, x \in S}

ParseInit == ParseIdle /\ MonInit /\ ExtIdle

\* One poll cycle of one session, from the records read to the stored carry
\* (session_monitor.py:259-267).
ParseCycle(batch) ==
    LET carry == pPending
        got == parse_entries(batch, carry, Len(pHist))
    IN  /\ Len(pHist) + Len(batch) <= MaxHist
        /\ pHist' = pHist \o batch
        /\ pOut' = pOut \o got.entries
        /\ pPending' = got.remaining
        /\ pCycleStart' = Len(pHist)
        /\ pOutStart' = Len(pOut)
        /\ pCarryIn' = carry
        /\ UNCHANGED <<monVars, cycleVars, extVars>>

ParseNext == \E batch \in SeqsUpTo(ParseRecords, MaxBatch) : ParseCycle(batch)

SpecParse == ParseInit /\ [][ParseNext]_vars

(***************************************************************************)
(* SpecReplay: the reconstructor of one session across a restart.  The     *)
(* monitor comes up with the persisted offset at an earlier value n and    *)
(* with no pending state (_pending_tools is built empty by __init__,       *)
(* session_monitor.py:75), and reads the lines after n again.  n is an     *)
(* offset the state file has held: 0, or the offset before the last cycle. *)
(***************************************************************************)
\* Variant: the pending state survives the restart with the offset.
ParseRestart_KeepPending(n) ==
    LET kept == IF n = pCycleStart THEN pCarryIn ELSE <<>>
        again == parse_entries(SubSeq(pHist, n + 1, Len(pHist)), kept, n)
    IN  /\ n < Len(pHist)
        /\ n \in {0, pCycleStart}
        /\ pReplay' = [on |-> TRUE, from |-> n, upto |-> Len(pHist),
                       out |-> again.entries]
        /\ UNCHANGED <<parseVars, monVars, cycleVars, lifeVars, scanVars, recVars, hookVars, splitVars, tailVars>>

ParseRestart(n) ==
    LET again == parse_entries(SubSeq(pHist, n + 1, Len(pHist)), <<>>, n)
    IN  /\ n < Len(pHist)
        /\ n \in {0, pCycleStart}
        /\ pReplay' = [on |-> TRUE, from |-> n, upto |-> Len(pHist),
                       out |-> again.entries]
        /\ UNCHANGED <<parseVars, monVars, cycleVars, lifeVars, scanVars, recVars, hookVars, splitVars, tailVars>>

ReplayNext ==
    \/ \E batch \in SeqsUpTo(ParseRecords, MaxBatch) : ParseCycle(batch)
    \/ \E n \in 0..(MaxHist - 1) : ParseRestart(n)

SpecReplay == ParseInit /\ [][ReplayNext]_vars

\* The same restart over transcripts of tool records and plain user text.
RestartRecords == {A_use1, A_multi, U_res1, U_res21, U_text}

RestartNext ==
    \/ \E batch \in SeqsUpTo(RestartRecords, MaxBatch) : ParseCycle(batch)
    \/ \E n \in 0..(MaxHist - 1) : ParseRestart(n)

SpecRestart == ParseInit /\ [][RestartNext]_vars

(***************************************************************************)
(* SpecLife: start(), stop() and the tasks that run _monitor_loop.  A task *)
(* runs from one await to the next without interruption: check_for_updates *)
(* holds no await that suspends, so a task is suspended only before its    *)
(* first step, inside the callback (line 320) or in the sleep (line 327).  *)
(* Task.cancel() makes the task's next resumption raise CancelledError,    *)
(* which is no Exception: the handlers at lines 321 and 324 let it pass    *)
(* and the task ends.  The callback lets a CancelledError pass, as the     *)
(* callback of bot.py does (except Exception, bot.py:607-613).             *)
(***************************************************************************)
\* Variant: stop() does not cancel the task.
cancel_task_None(ts, t) == ts

\* self._task.cancel() (line 341): no effect on a task that is done.
cancel_task(ts, t) ==
    IF ts[t].pc = "done" THEN ts ELSE [ts EXCEPT ![t].cancel = TRUE]

\* MonitorState.save_if_dirty() with the dirty flag d: what becomes of the
\* state file.
save_if_dirty(d) == IF d THEN "written" ELSE "none"

\* MonitorState.save()
save(d) == "written"

\* Variant: stop() saves only a dirty state.
stop_persist_IfDirty(d) == save_if_dirty(d)

\* self.state.save() of stop() (line 343)
stop_persist(d) == save(d)

\* Variant: no handler around the callback.
callback_guard_None(outcome) == IF outcome = "raises" THEN "escaped" ELSE "returned"

\* try: await self._message_callback(msg) / except Exception (lines 319-322)
callback_guard(outcome) == IF outcome = "raises" THEN "caught" ELSE "returned"

\* Variant: no handler around the cycle.
cycle_guard_None(failure) == "escaped"

\* try: ... / except Exception (lines 306-325) around one cycle
cycle_guard(failure) == "caught"

\* The lines a producer writes while the lifecycle is exercised: all of them
\* decode, so that the k-th record of a read is the k-th line after the
\* offset.
LifeLinesOf(sid) == {Line("json", A_text)}

LifeModes == {OK, Mode("open_oserror", 0), Mode("decode_error", 0)}

\* Failures of a cycle outside the session loop: scan_error, an exception
\* of load_session_map or scan_projects (lines 308, 228); save_error, an
\* OSError of save_if_dirty (line 289).
Faults == {"none", "scan_error", "save_error"}

\* new_messages with the file line each message comes from.
WithLines(msgs) ==
    [k \in 1..Len(msgs) |->
        [msg |-> msgs[k],
         line |-> tracked[msgs[k].session_id].last_line_count + msgs[k].src[1]]]

EventKey(m) == <<m.msg.session_id, m.line>>

\* start() (lines 331-336)
start ==
    /\ calls < MaxCalls
    /\ calls' = calls + 1
    /\ IF running
       THEN /\ hOp' = Op("start", 0, "none", FALSE, dirty, FALSE, TRUE)
            /\ UNCHANGED <<running, task, tasks>>
       ELSE \E t \in TaskIds :
               /\ tasks[t].pc = "none"
               /\ \A u \in TaskIds : u < t => tasks[u].pc # "none"
               /\ running' = TRUE
               /\ task' = t
               /\ tasks' = [tasks EXCEPT ![t] = [NoTask EXCEPT !.pc = "new"]]
               /\ hOp' = Op("start", t, "none", FALSE, dirty, FALSE, FALSE)
    /\ UNCHANGED <<hHanded, hFirst, monVars, cycleVars, parseVars, replayVars, scanVars, recVars, hookVars, splitVars, tailVars>>

\* stop() (lines 338-344)
stop ==
    /\ calls < MaxCalls
    /\ calls' = calls + 1
    /\ running' = FALSE
    /\ tasks' = IF task # 0 THEN cancel_task(tasks, task) ELSE tasks
    /\ task' = 0
    /\ disk' = IF stop_persist(dirty) = "written" THEN tracked ELSE disk
    /\ dirty' = IF stop_persist(dirty) = "written" THEN FALSE ELSE dirty
    /\ hOp' = Op("stop", task, stop_persist(dirty), FALSE, dirty, FALSE, FALSE)
    /\ UNCHANGED <<file, mtime, tracked, pend, pc, queue, hHanded, hFirst,
                   cycleVars, parseVars, replayVars, scanVars, recVars, hookVars, splitVars, tailVars>>

\* Task t, suspended before its first step or in the sleep, is resumed.  A
\* cancelled task ends by the CancelledError; so does the loop when
\* _running is false (line 305).  Otherwise one cycle runs (lines 306-327):
\* check_for_updates under the access outcomes modes and the failure fault,
\* up to the first await of the callback or to the sleep.
TaskRun(t, modes, fault) ==
    LET me == tasks[t]
        acc == SessionLoop(
                  [tracked |-> tracked, pend |-> pend, dirty |-> dirty,
                   new_messages |-> <<>>, aborted |-> FALSE, read |-> NoRead],
                  1, modes)
        failure == IF fault = "scan_error" THEN "scan"
                   ELSE IF acc.aborted THEN "session"
                   ELSE IF fault = "save_error" THEN "save"
                   ELSE "none"
        persist == IF failure \in {"scan", "session"} THEN "none"
                   ELSE IF failure = "save" THEN "failed"
                   ELSE save_if_dirty(acc.dirty)
        msgs == IF failure = "none" THEN WithLines(acc.new_messages) ELSE <<>>
        cycle == [me EXCEPT !.q = msgs, !.msgs = msgs, !.outcomes = <<>>]
    IN  /\ me.pc \in {"new", "sleep"}
        /\ (me.cancel \/ ~running) => (modes = AllOK /\ fault = "none")
        /\ \A sid \in SessionIds : modes[sid] # OK => Opens(sid)
        /\ \A sid \in SessionIds : modes[sid].kind = "decode_error" => file[sid] # <<>>
        /\ fault = "scan_error" => modes = AllOK
        /\ fault = "save_error" => (~acc.aborted /\ acc.dirty)
        /\ IF me.cancel \/ ~running
           THEN /\ tasks' = [tasks EXCEPT ![t] =
                        [me EXCEPT !.pc = "done",
                                   !.end = IF me.cancel THEN "cancelled" ELSE "stopped"]]
                /\ hOp' = Op("end", t, "none", FALSE, dirty, FALSE, FALSE)
                /\ UNCHANGED <<tracked, pend, dirty, disk, hHanded, hFirst>>
           ELSE /\ tracked' = IF failure = "scan" THEN tracked ELSE acc.tracked
                /\ pend' = IF failure = "scan" THEN pend ELSE acc.pend
                /\ dirty' = IF failure = "scan" THEN dirty
                            ELSE IF failure = "none" THEN FALSE
                            ELSE acc.dirty
                /\ disk' = IF persist = "written" THEN acc.tracked ELSE disk
                /\ tasks' = [tasks EXCEPT ![t] =
                        IF failure # "none"
                        THEN IF cycle_guard(failure) = "caught"
                             THEN [cycle EXCEPT !.pc = "sleep", !.handed = <<>>,
                                                !.log = <<"failed", "sleep">>]
                             ELSE [cycle EXCEPT !.pc = "done", !.end = "error",
                                                !.handed = <<>>, !.log = <<"failed">>]
                        ELSE IF msgs = <<>>
                        THEN [cycle EXCEPT !.pc = "sleep", !.handed = <<>>,
                                           !.log = <<"persist", "sleep">>]
                        ELSE [cycle EXCEPT !.pc = "callback", !.handed = <<msgs[1]>>,
                                           !.log = <<"persist", "emit">>]]
                /\ hHanded' = IF msgs # <<>> THEN hHanded \cup {EventKey(msgs[1])}
                              ELSE hHanded
                /\ hFirst' = [sid \in SessionIds |->
                                IF failure # "scan" /\ ~tracked[sid].known
                                   /\ acc.tracked[sid].known
                                THEN acc.tracked[sid].last_line_count
                                ELSE hFirst[sid]]
                /\ hOp' = Op("cycle", t, persist,
                             failure # "scan" /\ acc.tracked # tracked,
                             dirty, failure # "none", FALSE)
        /\ UNCHANGED <<file, mtime, pc, queue, running, task, calls,
                       cycleVars, parseVars, replayVars, scanVars, recVars, hookVars, splitVars, tailVars>>

\* Task t is resumed inside the callback, which ends as outcome says
\* ("returns" or "raises", an Exception); the loop of lines 312-322 goes on
\* to the next message or to the sleep.  A cancelled task ends instead.
CallbackDone(t, outcome) ==
    LET me == tasks[t]
        rest == Tail(me.q)
        g == callback_guard(outcome)
        done == [me EXCEPT !.q = rest, !.outcomes = Append(@, outcome)]
    IN  /\ me.pc = "callback"
        /\ me.cancel => outcome = "returns"
        /\ tasks' = [tasks EXCEPT ![t] =
                IF me.cancel
                THEN [me EXCEPT !.pc = "done", !.end = "cancelled", !.q = <<>>]
                ELSE IF g = "escaped"
                THEN IF cycle_guard("callback") = "caught"
                     THEN [done EXCEPT !.pc = "sleep", !.q = <<>>,
                                       !.log = @ \o <<"failed", "sleep">>]
                     ELSE [done EXCEPT !.pc = "done", !.end = "error", !.q = <<>>]
                ELSE IF rest = <<>>
                THEN [done EXCEPT !.pc = "sleep", !.log = Append(@, "sleep")]
                ELSE [done EXCEPT !.handed = Append(@, rest[1]),
                                  !.log = Append(@, "emit")]]
        /\ hHanded' = IF ~me.cancel /\ g # "escaped" /\ rest # <<>>
                      THEN hHanded \cup {EventKey(rest[1])}
                      ELSE hHanded
        /\ hOp' = Op(IF me.cancel THEN "end" ELSE "callback", t, "none", FALSE,
                     dirty, FALSE, FALSE)
        /\ UNCHANGED <<running, task, calls, hFirst, monVars, cycleVars, parseVars,
                       replayVars, scanVars, recVars, hookVars, splitVars, tailVars>>

\* The producer appends one line to a transcript, at any moment.
LifeWrite(sid, line) ==
    /\ Writes < MaxLifeWrites
    /\ Len(file[sid]) < MaxLines
    /\ file' = [file EXCEPT ![sid] = Append(@, line)]
    /\ mtime' = [mtime EXCEPT ![sid] = @ + 1]
    /\ hOp' = Op("write", 0, "none", FALSE, dirty, FALSE, FALSE)
    /\ UNCHANGED <<tracked, pend, dirty, disk, pc, queue, running, task, tasks, calls,
                   hHanded, hFirst, cycleVars, parseVars, replayVars, scanVars, recVars, hookVars, splitVars, tailVars>>

LifeInit == MonInit /\ ParseIdle /\ ExtIdle

LifeNext ==
    \/ start
    \/ stop
    \/ \E t \in TaskIds : \E modes \in [SessionIds -> LifeModes] : \E fault \in Faults :
          TaskRun(t, modes, fault)
    \/ \E t \in TaskIds : \E outcome \in {"returns", "raises"} : CallbackDone(t, outcome)
    \/ \E sid \in SessionIds : \E line \in LifeLinesOf(sid) : LifeWrite(sid, line)

SpecLife == LifeInit /\ [][LifeNext]_vars

\* The same with every file access and every save succeeding.
LifeNextOK ==
    \/ start
    \/ stop
    \/ \E t \in TaskIds : TaskRun(t, AllOK, "none")
    \/ \E t \in TaskIds : \E outcome \in {"returns", "raises"} : CallbackDone(t, outcome)
    \/ \E sid \in SessionIds : \E line \in LifeLinesOf(sid) : LifeWrite(sid, line)

SpecLifeOK == LifeInit /\ [][LifeNextOK]_vars

\* The same with scan_projects and every save succeeding, and any outcome of
\* opening and decoding the transcripts.
LifeNextRead ==
    \/ start
    \/ stop
    \/ \E t \in TaskIds : \E modes \in [SessionIds -> LifeModes] : TaskRun(t, modes, "none")
    \/ \E t \in TaskIds : \E outcome \in {"returns", "raises"} : CallbackDone(t, outcome)
    \/ \E sid \in SessionIds : \E line \in LifeLinesOf(sid) : LifeWrite(sid, line)

SpecLifeRead == LifeInit /\ [][LifeNextRead]_vars
(***************************************************************************)
(* The scanner: scan_projects over one project directory.  Paths are       *)
(* names; "/link" is a symbolic link to "/w", "/nul" is a path that        *)
(* Path.resolve() rejects, and the empty path resolves to the working      *)
(* directory of the process.  The order in which glob yields the files is  *)
(* the file system's; the claims do not depend on it.                      *)
(***************************************************************************)
MaxEntries == 2

ProcCwd == "/w"
Absent == "absent"
Stems == {"a", "b"}

\* project_dir / (stem + ".jsonl")
FileOf(stem) == IF stem = "a" THEN "project/a.jsonl" ELSE "project/b.jsonl"

\* Path(full_path).exists(): the file is one of those in the directory
Exists(full_path, files) == \E stem \in files : FileOf(stem) = full_path

\* str(Path(p).resolve())
resolve(p) ==
    CASE p = "" -> ProcCwd
      [] p = "/link" -> "/w"
      [] OTHER -> p

\* try: str(Path(p).resolve()) / except (OSError, ValueError): p
normalize(p) == IF p = "/nul" THEN p ELSE resolve(p)

get_active_cwds(windows) == {normalize(w) : w \in windows}

is_active_Any(norm, active_cwds) == TRUE

\* if norm_pp not in active_cwds: continue
is_active(norm, active_cwds) == norm \in active_cwds

SessionInfo(session_id, file_path, project_path) ==
    [session_id |-> session_id, file_path |-> file_path, project_path |-> project_path]

IndexEntries ==
    [sessionId : {"", "a", "b"}, fullPath : {"", FileOf("a")},
     projectPath : {Absent, "/w", "/x"}]

NoIndex(kind) == [kind |-> kind, originalPath |-> "", entries |-> <<>>]

\* sessions-index.json: missing, not JSON, or an object with these keys
Indexes ==
    {NoIndex("none"), NoIndex("corrupt")}
    \cup [kind : {"json"}, originalPath : {"", "/link", "/x"},
          entries : SeqsUpTo(IndexEntries, MaxEntries)]

ScanInputs ==
    [windows : SUBSET {"/link", "/nul"}, index : Indexes,
     files : {{}, {"a"}, {"a", "b"}}, cwd : {"", "/nul"}, dir_path : {"", "/w"}]

\* for entry in entries: ... (lines 116-141); acc is sessions and indexed_ids
RECURSIVE IndexLoop(_, _, _, _, _, _)
IndexLoop(entries, k, original_path, files, active_cwds, acc) ==
    IF k > Len(entries) THEN acc
    ELSE
      LET entry == entries[k]
          project_path == IF entry.projectPath = Absent THEN original_path
                          ELSE entry.projectPath
          indexed == [acc EXCEPT !.indexed_ids = @ \cup {entry.sessionId}]
          next ==
            IF entry.sessionId = "" \/ entry.fullPath = "" THEN acc
            ELSE IF ~is_active(normalize(project_path), active_cwds) THEN acc
            ELSE IF Exists(entry.fullPath, files)
            THEN [indexed EXCEPT !.sessions =
                     Append(@, SessionInfo(entry.sessionId, entry.fullPath, project_path))]
            ELSE indexed
      IN  IndexLoop(entries, k + 1, original_path, files, active_cwds, next)

\* for jsonl_file in project_dir.glob("*.jsonl"): ... (lines 148-179)
RECURSIVE GlobLoop(_, _, _, _, _)
GlobLoop(todo, original_path, in, active_cwds, acc) ==
    IF todo = {} THEN acc
    ELSE
      LET stem == CHOOSE x \in todo : \A y \in todo : x = "a" \/ y # "a"
          from_file == IF original_path # "" THEN original_path ELSE in.cwd
          file_project_path == IF from_file # "" THEN from_file ELSE in.dir_path
          next ==
            IF stem \in acc.indexed_ids THEN acc
            ELSE IF ~is_active(normalize(file_project_path), active_cwds) THEN acc
            ELSE [acc EXCEPT !.sessions =
                     Append(@, SessionInfo(stem, FileOf(stem), file_project_path))]
      IN  GlobLoop(todo \ {stem}, original_path, in, active_cwds, next)

scan_projects(in) ==
    LET active_cwds == get_active_cwds(in.windows)
        original_path == IF in.index.kind = "json" THEN in.index.originalPath ELSE ""
        none == [sessions |-> <<>>, indexed_ids |-> {}]
        indexed == IF in.index.kind = "json"
                   THEN IndexLoop(in.index.entries, 1, original_path, in.files,
                                  active_cwds, none)
                   ELSE none
    IN  IF active_cwds = {} THEN <<>>
        ELSE GlobLoop(in.files, original_path, in, active_cwds, indexed).sessions

\* sessions = self.scan_projects(), and the files the loop over it reads
Scan ==
    LET sessions == scan_projects(scanIn)
    IN  /\ ~scanOut.done
        /\ scanOut' = [done |-> TRUE, sessions |-> sessions,
                       read |-> {sessions[k].file_path : k \in DOMAIN sessions}]
        /\ UNCHANGED <<scanIn, parseVars, monVars, cycleVars, replayVars, lifeVars, recVars, hookVars, splitVars, tailVars>>

ScanInit ==
    /\ MonInit /\ ParseIdle /\ ReplayIdle /\ LifeIdle /\ RecIdle /\ HookIdle /\ SplitIdle /\ TailIdle
    /\ scanIn \in ScanInputs
    /\ scanOut = NoScanOut

SpecScan == ScanInit /\ [][Scan]_vars

(***************************************************************************)
(* SpecRec: one read of one session, record by record.  The lines of the   *)
(* read go through _read_new_lines and then through the record loop of     *)
(* parse_entries, started from a carried pending state; the loop state     *)
(* after every record is kept.                                             *)
(***************************************************************************)
MaxRecs == 3

U_cmd == Rec("user", <<Blk("text", "", CmdOnly)>>)
U_out == Rec("user", <<Blk("text", "", OutOnly)>>)
U_sys == Rec("user", <<Blk("text", "", SysText), Blk("text", "", " hi ")>>)
U_blank == Rec("user", <<Blk("text", "", " ")>>)
A_think_text == Rec("assistant", <<Blk("thinking", "", ""), Blk("text", "", "hi")>>)
A_text_think == Rec("assistant", <<Blk("text", "", "hi"), Blk("thinking", "", "")>>)
A_noid == Rec("assistant", <<Blk("tool_use", "", "ls"), Blk("tool_use", "t1", "pwd")>>)

RecVocab ==
    {U_cmd, U_out, U_local, U_sys, U_blank, U_text, U_res1, U_res21, R_other,
     A_text, A_think_text, A_text_think, A_noid, A_use1, A_multi}

\* Pending states left by earlier reads: nothing, t1, and t2 before t1.
CarriedItem(id, cmd) ==
    [id |-> id, summary |-> format_tool_use_summary(Blk("tool_use", id, cmd)),
     use |-> NoPos]

Carries ==
    {<<>>, <<CarriedItem("t1", "ls")>>,
     <<CarriedItem("t2", "pwd"), CarriedItem("t1", "ls")>>}

RecInputs ==
    [carry : Carries,
     lines : {[k \in DOMAIN recs |-> Line("json", recs[k])] :
                 recs \in SeqsUpTo(RecVocab, MaxRecs)}]

\* The record loop of parse_entries (line 388) with the loop state after
\* every iteration: steps[1] is the state before the first record,
\* steps[k + 1] the state after entries[k].
RECURSIVE LoopSteps(_, _, _)
LoopSteps(entries, k, steps) ==
    IF k > Len(entries) THEN steps
    ELSE LoopSteps(entries, k + 1,
            Append(steps, ProcessRecord(steps[Len(steps)], entries[k], k)))

\* new_entries = self._read_new_lines(...); parse_entries(new_entries, carry)
Reconstruct ==
    LET got == read_new_lines(0, recIn.lines, OK)
        steps == LoopSteps(got.entries, 1,
                    <<[result |-> <<>>, pending |-> recIn.carry, last_cmd_name |-> None]>>)
    IN  /\ ~recOut.done
        /\ recOut' = [done |-> TRUE, steps |-> steps,
                      last_line_count |-> got.last_line_count]
        /\ UNCHANGED <<recIn, parseVars, monVars, cycleVars, replayVars, lifeVars,
                       scanVars, hookVars, splitVars, tailVars>>

RecInit ==
    /\ MonInit /\ ParseIdle /\ ReplayIdle /\ LifeIdle /\ ScanIdle /\ HookIdle /\ SplitIdle /\ TailIdle
    /\ recIn \in RecInputs
    /\ recOut = NoRecOut

SpecRec == RecInit /\ [][Reconstruct]_vars

(***************************************************************************)
(* Vocabulary of the reconstructor's claims.                               *)
(***************************************************************************)
\* A record that the assistant rule or the tool-result rule processes: its
\* type is user or assistant and it is not a local-command record.  These
\* are the records at which pending summaries are flushed.
Flushes(r) ==
    /\ r.type \in {"user", "assistant"}
    /\ parse_message(r).message_type \notin {"local_command", "local_command_invoke"}

HasUse(r, X) ==
    \E b \in 1..Len(r.content) : r.content[b].btype = "tool_use" /\ r.content[b].id = X

HasResult(r, X) ==
    \E b \in 1..Len(r.content) : r.content[b].btype = "tool_result" /\ r.content[b].id = X

SetMin(S) == CHOOSE x \in S : \A y \in S : x <= y
SetMax(S) == CHOOSE x \in S : \A y \in S : x >= y

\* The first flushing record after record i of the history, or 0.
NextFlush(i) ==
    LET S == {j \in (i + 1)..Len(pHist) : Flushes(pHist[j])}
    IN  IF S = {} THEN 0 ELSE SetMin(S)

\* An entry that carries a tool summary.
HasSummary(e) == e.text # <<>> /\ e.text[1] = "TOOL"
IsCombined(e) == e.content_type = "tool_result" /\ HasSummary(e)
IsResultOnly(e) == e.content_type = "tool_result" /\ ~HasSummary(e)
IsStandalone(e) == e.content_type = "tool_use"

\* Indices of the emitted entries that are combined entries of a tool_use of
\* record i with a tool_result of record j, for id X.
CombinedAt(X, i, j) ==
    {k \in DOMAIN pOut : /\ IsCombined(pOut[k]) /\ pOut[k].tool_use_id = X
                         /\ pOut[k].use[1] = i /\ pOut[k].src[1] = j}

StandaloneOf(X, i) ==
    {k \in DOMAIN pOut : /\ IsStandalone(pOut[k]) /\ pOut[k].tool_use_id = X
                         /\ pOut[k].use[1] = i}

ResultOnlyAt(X, j) ==
    {k \in DOMAIN pOut : /\ IsResultOnly(pOut[k]) /\ pOut[k].tool_use_id = X
                         /\ pOut[k].src[1] = j}

\* Block index of the first tool_result block for X in record r.
FirstResult(r, X) ==
    SetMin({b \in 1..Len(r.content) :
                r.content[b].btype = "tool_result" /\ r.content[b].id = X})

\* Record j is a user record with a tool_result for X, record i is the last
\* assistant record before j with a tool_use X, and no user record between
\* them holds a tool_result for X: the result nearest to the use.
NearestPair(X, i, j) ==
    /\ i < j
    /\ pHist[i].type = "assistant" /\ HasUse(pHist[i], X)
    /\ pHist[j].type = "user" /\ HasResult(pHist[j], X)
    /\ \A k \in (i + 1)..(j - 1) :
          /\ ~(pHist[k].type = "assistant" /\ HasUse(pHist[k], X))
          /\ ~(pHist[k].type = "user" /\ HasResult(pHist[k], X))

UsePositions ==
    {<<i, b>> \in (DOMAIN pHist) \X (1..3) :
        /\ pHist[i].type = "assistant"
        /\ b <= Len(pHist[i].content)
        /\ pHist[i].content[b].btype = "tool_use"
        /\ pHist[i].content[b].id # ""}

\* C2 as stated: every tool_use that enters the pending state is, at any
\* time, either still pending or carried by exactly one emitted entry; no
\* summary vanishes and none is emitted twice, also when an id is reused
\* while it is pending.
C2_PendingExactlyOnce ==
    \A pos \in UsePositions :
        LET summary == format_tool_use_summary(pHist[pos[1]].content[pos[2]])
            emitted == {k \in DOMAIN pOut :
                           /\ pOut[k].use = pos
                           /\ SubSeq(pOut[k].text, 1, Len(summary)) = summary}
            held == {k \in DOMAIN pPending :
                           pPending[k].use = pos /\ pPending[k].summary = summary}
        IN  Cardinality(emitted) + Cardinality(held) = 1
\* The records and the entries of the last cycle.
LastBatch == (pCycleStart + 1)..Len(pHist)
LastOut == SubSeq(pOut, pOutStart + 1, Len(pOut))

\* The first flushing record of the last cycle's batch, or 0.
FirstFlush == NextFlush(pCycleStart)

\* Entries of the last cycle that carry the summary of the tool_use block at
\* position pos.
LastOutOf(pos) == {k \in DOMAIN LastOut : LastOut[k].use = pos}

\* The batch of the last cycle ended while the tool_use blocks X of its
\* assistant record i were pending: no user or assistant record follows i.
EndsPending(X, i) ==
    /\ i \in LastBatch
    /\ pHist[i].type = "assistant" /\ HasUse(pHist[i], X)
    /\ \A k \in (i + 1)..Len(pHist) : pHist[k].type \notin {"user", "assistant"}

\* C3, first half: such a tool_use has no entry in the cycle (nor before),
\* and X is pending with a summary of that record.
C3_Carried ==
    \A X \in ToolIds : \A i \in DOMAIN pHist :
        EndsPending(X, i) =>
            /\ \A k \in DOMAIN pOut : pOut[k].use[1] # i
            /\ \E k \in DOMAIN pPending : pPending[k].id = X /\ pPending[k].use[1] = i

PosLeq(p, q) == p[1] < q[1] \/ (p[1] = q[1] /\ p[2] <= q[2])

EmitPos(e) ==
    IF IsStandalone(e) /\ e.src[1] # e.at
    THEN IF pHist[e.at].type = "assistant" THEN <<e.at, 0>>
         ELSE <<e.at, Len(pHist[e.at].content)>>
    ELSE e.src

Decoded(lines) ==
    LET good == SelectSeq(lines, LAMBDA l : l.kind = "json")
    IN  [k \in 1..Len(good) |-> good[k].rec]

\* The last cycle's session loop came as far as session sid: no earlier
\* session left check_for_updates by an exception.
Reached(sid) ==
    \A k \in DOMAIN Sessions : \A n \in DOMAIN Sessions :
        (Sessions[n] = sid /\ k < n) => cMode[Sessions[k]].kind # "decode_error"

\* The last cycle called _read_new_lines for session sid.
WasRead(sid) ==
    /\ pc = "deliver"
    /\ Reached(sid)
    /\ cBefore[sid].known
    /\ mtime[sid] > cBefore[sid].last_mtime
    /\ cMode[sid].kind \notin {"stat_oserror", "decode_error"}

\* ... and the read met no I/O error.
ReadOK(sid) == WasRead(sid) /\ cMode[sid] = OK

\* Where a read that begins at offset n of file f starts to scan.
ScanStart(n, f) == IF Len(f) < n THEN 0 ELSE n

\* The messages the last cycle's reads give rise to, session by session.
RECURSIVE ExpectedMessages(_)
ExpectedMessages(k) ==
    IF k > Len(Sessions) THEN <<>>
    ELSE MessagesOf(Sessions[k],
            parse_entries(cRead[Sessions[k]], cCarry[Sessions[k]], 0).entries)
         \o ExpectedMessages(k + 1)

\* C6 as stated: when the delivery loop of a cycle is over, the callback has
\* been invoked exactly once, in file order, for each assistant-role entry
\* with text reconstructed from the lines the cycle read, and for nothing
\* else.
C6_EventDelivery ==
    (pc = "deliver" /\ queue = <<>>) => cDelivered = ExpectedMessages(1)

\* C7: after a read that met no I/O error, running _read_new_lines again on
\* the unchanged file returns no record and leaves last_line_count as it is;
\* and a read that finds the offset at the end of the file returns nothing.
C7_IdempotentReread ==
    \A sid \in SessionIds :
        ReadOK(sid) =>
            /\ LET again == read_new_lines(tracked[sid].last_line_count, file[sid], OK)
               IN  /\ again.entries = <<>>
                   /\ again.last_line_count = tracked[sid].last_line_count
            /\ cBefore[sid].last_line_count = Len(file[sid]) =>
                   /\ cRead[sid] = <<>>
                   /\ tracked[sid].last_line_count = cBefore[sid].last_line_count

\* A second read of a file with lines, none of them new, after a read that
\* returned records.
C7_Witness ==
    \E sid \in SessionIds :
        /\ ReadOK(sid)
        /\ cBefore[sid].last_line_count = Len(file[sid])
        /\ Decoded(file[sid]) # <<>>

\* C8: a read that finds fewer lines than last_line_count returns the records
\* of the whole file and leaves last_line_count at the file's line count; no
\* read leaves the offset above the line count.
C8_Truncation ==
    \A sid \in SessionIds :
        /\ (ReadOK(sid) /\ Len(file[sid]) < cBefore[sid].last_line_count) =>
              /\ cRead[sid] = Decoded(file[sid])
              /\ tracked[sid].last_line_count = Len(file[sid])
        /\ ReadOK(sid) =>
              /\ tracked[sid].last_line_count <= Len(file[sid])
              /\ Len(cRead[sid]) <= Len(file[sid])

\* A read of a truncated file that still holds a record.
C8_Witness ==
    \E sid \in SessionIds :
        /\ ReadOK(sid)
        /\ Len(file[sid]) < cBefore[sid].last_line_count
        /\ cRead[sid] # <<>>

\* C9: after a read that met no I/O error, last_line_count is the number of
\* lines of the file, and the records returned are those of the new lines
\* that decode, each once and in order, whatever lines among them do not
\* decode.
C9_LineAccounting ==
    \A sid \in SessionIds :
        ReadOK(sid) =>
            LET first == ScanStart(cBefore[sid].last_line_count, file[sid])
            IN  /\ tracked[sid].last_line_count = Len(file[sid])
                /\ cRead[sid] = Decoded(SubSeq(file[sid], first + 1, Len(file[sid])))

\* A read whose new lines hold a line that does not decode before one that
\* does.
C9_Witness ==
    \E sid \in SessionIds :
        /\ ReadOK(sid)
        /\ \E i \in DOMAIN file[sid] : \E j \in DOMAIN file[sid] :
              /\ ScanStart(cBefore[sid].last_line_count, file[sid]) < i /\ i < j
              /\ file[sid][i].kind # "json"
              /\ file[sid][j].kind = "json"

\* C10 as stated: a cycle in which the access to a tracked session's file
\* fails with an I/O error leaves that session's offset and last_mtime as
\* they were (so that the next cycle reads the same lines), and still
\* processes the other sessions.
C10_IOFailureRetry ==
    \A sid \in SessionIds :
        ( /\ pc = "deliver"
          /\ Reached(sid)
          /\ cBefore[sid].known
          /\ cMode[sid].kind \in {"stat_oserror", "open_oserror", "read_oserror"} )
        => tracked[sid] = cBefore[sid]
(***************************************************************************)
(* Vocabulary of the restart claims.                                       *)
(***************************************************************************)
\* What a consumer sees of an entry.
Shown(e) ==
    [role |-> e.role, text |-> e.text, content_type |-> e.content_type,
     tool_use_id |-> e.tool_use_id]

ShownSeq(es) == [k \in 1..Len(es) |-> Shown(es[k])]

\* a is a subsequence of b: b holds the elements of a in the same relative
\* order, possibly with others in between.
RECURSIVE IsSubseq(_, _)
IsSubseq(a, b) ==
    IF a = <<>> THEN TRUE
    ELSE IF b = <<>> THEN FALSE
    ELSE IF Head(a) = Head(b) THEN IsSubseq(Tail(a), Tail(b))
    ELSE IsSubseq(a, Tail(b))

\* The entries the original run appended while it processed the records
\* from..upto.
OriginalOut(from, upto) ==
    SelectSeq(pOut, LAMBDA e : from < e.at /\ e.at <= upto)

Live(t) == tasks[t].pc \in {"new", "callback", "sleep"} /\ ~tasks[t].cancel

LiveTasks == {t \in TaskIds : Live(t)}

SingleWorker ==
    /\ Cardinality(LiveTasks) <= 1
    /\ \A t \in LiveTasks : running /\ task = t
    /\ hOp.op \in {"cycle", "callback"} => (running /\ hOp.t = task /\ Live(hOp.t))

\* C12: under any sequence of start() and stop() calls at most one loop task
\* is live, every step of a poll cycle (check_for_updates, a callback
\* return) is taken by that one task while the monitor is running, and a
\* start() while already running creates no task and changes no state.
C12_SingleWorker ==
    [][/\ SingleWorker'
       /\ (hOp'.op = "start" /\ hOp'.noop) =>
              UNCHANGED <<running, task, tasks, monVars, hHanded, hFirst>>]_vars

\* stop() then start() while the old task's cycle is suspended inside the
\* callback, and the new task has already run a cycle of its own.
C12_Witness ==
    \E old \in TaskIds : \E new \in TaskIds :
        /\ tasks[old].pc = "callback" /\ tasks[old].cancel
        /\ Live(new) /\ tasks[new].log # <<>>

\* No delivery is under way: no task that can still run is inside a callback.
NoDelivery == \A t \in TaskIds : ~(tasks[t].pc = "callback" /\ ~tasks[t].cancel)

\* C13: whenever the durable state records offset n for a session, every
\* event of the lines up to n (those read since the session was first seen)
\* has been handed to the callback, also when stop() comes between the
\* persisting of the offset and the delivery of the cycle's events.
C13_AtLeastOnce ==
    NoDelivery =>
        \A sid \in SessionIds :
            disk[sid].known =>
                \A i \in (hFirst[sid] + 1)..disk[sid].last_line_count :
                    <<sid, i>> \in hHanded

\* C14: within each poll cycle every event is emitted to the callback before
\* the cycle's state is persisted, and the persist comes before the sleep.
C14_StepOrder ==
    \A t \in TaskIds :
        LET steps == tasks[t].log
        IN  \A i \in DOMAIN steps : \A j \in DOMAIN steps :
                i < j => /\ ~(steps[i] = "persist" /\ steps[j] = "emit")
                         /\ ~(steps[i] = "sleep" /\ steps[j] \in {"persist", "emit"})

\* C18: a poll cycle writes the monitor state exactly when the dirty flag is
\* set (a session was created or updated since the last write) and leaves
\* the flag clear; a cycle without a new or changed session writes nothing.
C18_DirtyFlag ==
    hOp.op = "cycle" =>
        /\ hOp.persist = "none" => ~dirty
        /\ hOp.persist = "written" => (~dirty /\ (hOp.was_dirty \/ hOp.changed))
        /\ (~hOp.was_dirty /\ ~hOp.changed) => hOp.persist = "none"

\* C15: from any state stop() leaves the monitor stopped with no loop task
\* scheduled and none live, and has saved the monitor state whether or not
\* the dirty flag was set; after it a poll cycle runs only once start() has
\* been called again.
C15_Stop ==
    [][/\ hOp'.op = "stop" =>
              /\ ~running' /\ task' = 0 /\ LiveTasks' = {}
              /\ hOp'.persist = "written" /\ disk' = tracked' /\ ~dirty'
       /\ hOp'.op \in {"cycle", "callback"} => (running /\ task # 0)
       /\ (~running /\ running') => hOp'.op = "start"]_vars

\* stop() with a clean state while the cycle is suspended inside the callback.
C15_Witness ==
    /\ hOp.op = "stop" /\ ~hOp.was_dirty /\ hOp.persist = "written"
    /\ hOp.t # 0
    /\ tasks[IF hOp.t = 0 THEN 1 ELSE hOp.t].pc = "callback"

\* C16: a callback that raises for one event is caught: the events of a cycle
\* are handed to the callback one after the other in their order, whatever
\* the earlier calls did, all of them once the cycle reaches its sleep, and
\* the loop task does not end by the failure.
C16_CallbackIsolation ==
    \A t \in TaskIds :
        LET me == tasks[t]
        IN  /\ me.end # "error"
            /\ me.pc = "callback" =>
                   me.handed = SubSeq(me.msgs, 1, Len(me.outcomes) + 1)
            /\ (me.pc = "sleep" /\ me.log # <<>> /\ Head(me.log) = "persist") =>
                   (me.handed = me.msgs /\ Len(me.outcomes) = Len(me.msgs))
            /\ (\E k \in DOMAIN me.outcomes : me.outcomes[k] = "raises") =>
                   (me.cancel \/ Live(t))

\* The callback raised for the first of two events, and the second one was
\* handed over all the same; the task is in its sleep, ready for a cycle.
C16_Witness ==
    \E t \in TaskIds :
        /\ Live(t) /\ tasks[t].pc = "sleep"
        /\ Len(tasks[t].msgs) = 2
        /\ tasks[t].outcomes # <<>> /\ tasks[t].outcomes[1] = "raises"
        /\ tasks[t].handed = tasks[t].msgs

\* C17: a failure inside a poll cycle (discovery, read, decoding, persisting)
\* is caught inside the loop: the failed cycle leaves its task live in the
\* interval sleep, from which the next cycle starts, and no loop task ever
\* ends by an error.
C17_NoEscalation ==
    /\ \A t \in TaskIds : tasks[t].end # "error"
    /\ (hOp.op = "cycle" /\ hOp.failed) =>
           /\ hOp.t = task /\ running
           /\ Live(hOp.t) /\ tasks[hOp.t].pc = "sleep"

\* A cycle failed (in discovery, in a read or in the save) while a session
\* with lines in its file was tracked.
C17_Witness ==
    /\ hOp.op = "cycle" /\ hOp.failed
    /\ \E sid \in SessionIds : tracked[sid].known /\ file[sid] # <<>>

(***************************************************************************)
(* Vocabulary of the scanner claims.                                       *)
(***************************************************************************)
ActiveNow == get_active_cwds(scanIn.windows)

Returned == {scanOut.sessions[k] : k \in DOMAIN scanOut.sessions}

\* C19: every session scan_projects returns has a project path whose
\* normalized form is one of the active working directories; with no active
\* working directory nothing is returned; and only files of returned
\* sessions are read.
C19_ScannerBound ==
    scanOut.done =>
        /\ \A s \in Returned : normalize(s.project_path) \in ActiveNow
        /\ ActiveNow = {} => scanOut.sessions = <<>>
        /\ \A f \in scanOut.read :
               \E s \in Returned :
                   s.file_path = f /\ normalize(s.project_path) \in ActiveNow

\* A session returned under a project path that is active only once it is
\* resolved, while the index also lists an entry of an inactive directory.
C19_Witness ==
    /\ scanOut.done
    /\ \E s \in Returned : s.project_path = "/link" /\ "/link" \notin ActiveNow
    /\ \E k \in DOMAIN scanIn.index.entries :
           LET entry == scanIn.index.entries[k]
           IN  entry.projectPath = "/x" /\ entry.sessionId # "" /\ entry.fullPath # ""

\* The files the index lists, and the part of the result the glob added.
Listed ==
    {scanIn.index.entries[k].fullPath : k \in DOMAIN scanIn.index.entries} \ {""}

FromIndex ==
    IF scanIn.index.kind = "json" /\ ActiveNow # {}
    THEN IndexLoop(scanIn.index.entries, 1, scanIn.index.originalPath, scanIn.files,
                   ActiveNow, [sessions |-> <<>>, indexed_ids |-> {}]).sessions
    ELSE <<>>

FromGlob == SubSeq(scanOut.sessions, Len(FromIndex) + 1, Len(scanOut.sessions))

\* C20: in one scan result no log file and no session id appears twice, and
\* a file the index lists is never returned by the fallback glob as well.
C20_NoDoubleCounting ==
    scanOut.done =>
        /\ \A i \in DOMAIN scanOut.sessions : \A j \in DOMAIN scanOut.sessions :
               i < j => /\ scanOut.sessions[i].file_path # scanOut.sessions[j].file_path
                        /\ scanOut.sessions[i].session_id # scanOut.sessions[j].session_id
        /\ \A k \in DOMAIN FromGlob : FromGlob[k].file_path \notin Listed

(***************************************************************************)
(* Vocabulary of the isolation claim.                                      *)
(***************************************************************************)
\* The file of sid was opened by the last cycle.
OpenedByCycle(sid) == ~cBefore[sid].known \/ mtime[sid] > cBefore[sid].last_mtime

\* The file of sid holds a tool_use of id among its first n lines.
HasUseIn(sid, id, n) ==
    \E k \in 1..n :
        /\ k <= Len(file[sid])
        /\ file[sid][k].kind = "json"
        /\ \E b \in DOMAIN file[sid][k].rec.content :
               /\ file[sid][k].rec.content[b].btype = "tool_use"
               /\ file[sid][k].rec.content[b].id = id

\* A message made of a tool_use summary, alone or with its result.
CarriesSummary(m) == m.text # <<>> /\ Head(m.text) = "TOOL"

RecCount == Len(recOut.steps) - 1

RecAt(k) == recIn.lines[k].rec

StateBefore(k) == recOut.steps[k]

StateAfter(k) == recOut.steps[k + 1]

\* The entries the record loop appended while it processed record k.
EntriesOf(k) ==
    SubSeq(StateAfter(k).result, Len(StateBefore(k).result) + 1, Len(StateAfter(k).result))

KindOf(k) ==
    IF RecAt(k).type \in {"user", "assistant"} THEN parse_message(RecAt(k)).message_type
    ELSE "ignored"

\* The command name a local_command entry shows, None when it shows none.
ShownCommand(e) == IF Head(e.text) = "PROMPT" THEN e.text[2] ELSE None

\* C22: a command-invocation-only record emits nothing and sets the
\* remembered command name; only the record right after it, when that is a
\* command output without a name of its own, shows the remembered name; the
\* name is forgotten after every record that is not a command invocation,
\* also after a record that is neither user nor assistant.
C22_CommandMemory ==
    recOut.done =>
        \A k \in 1..RecCount :
            /\ KindOf(k) = "local_command_invoke" =>
                   /\ EntriesOf(k) = <<>>
                   /\ StateAfter(k).last_cmd_name = parse_message(RecAt(k)).tool_name
            /\ KindOf(k) # "local_command_invoke" => StateAfter(k).last_cmd_name = None
            /\ (KindOf(k) = "local_command" /\ parse_message(RecAt(k)).tool_name = None) =>
                   \A j \in DOMAIN EntriesOf(k) :
                       ShownCommand(EntriesOf(k)[j]) # None =>
                           /\ k > 1
                           /\ KindOf(k - 1) = "local_command_invoke"
                           /\ ShownCommand(EntriesOf(k)[j])
                                  = parse_message(RecAt(k - 1)).tool_name

IsPlaceholder(e) == e.content_type = "thinking" /\ e.text = <<"THINK (thinking)">>

IsText(e) == e.content_type = "text" /\ e.role = "assistant"

HasEntry(k, P(_)) == \E j \in DOMAIN EntriesOf(k) : P(EntriesOf(k)[j])

\* C23 as stated: the entries of one assistant record never hold both a
\* "(thinking)" placeholder and a text entry, whatever the order of the
\* blocks.
C23_PlaceholderAnyOrder ==
    recOut.done =>
        \A k \in 1..RecCount :
            RecAt(k).type = "assistant" => ~(HasEntry(k, IsPlaceholder) /\ HasEntry(k, IsText))

\* C23, amended: a placeholder is emitted for an empty thinking block exactly
\* when no text entry was emitted for an earlier block of the same record;
\* a placeholder never comes after a text entry of its record.
C23_Placeholder ==
    recOut.done =>
        \A k \in 1..RecCount :
            RecAt(k).type = "assistant" =>
                LET es == EntriesOf(k)
                    blocks == RecAt(k).content
                IN  /\ \A i \in DOMAIN es : \A j \in DOMAIN es :
                           (IsText(es[i]) /\ IsPlaceholder(es[j])) => j < i
                    /\ \A b \in DOMAIN blocks :
                           (blocks[b].btype = "thinking" /\ blocks[b].text = "") =>
                               ( (\E j \in DOMAIN es :
                                      IsPlaceholder(es[j]) /\ es[j].src = <<k, b>>)
                                 <=> ~\E i \in DOMAIN es :
                                        IsText(es[i]) /\ es[i].src[2] < b )

\* A record with the text first and the empty thinking block after it: the
\* text entry alone.
C23_Witness ==
    /\ recOut.done
    /\ \E k \in 1..RecCount :
           /\ RecAt(k) = A_text_think
           /\ HasEntry(k, IsText) /\ ~HasEntry(k, IsPlaceholder)

\* Block b of record k is a tool_result that the tool-result rule processes
\* and that finds no summary pending under its id: none was pending before
\* the record, or an earlier block of the record took it.
Unmatched(k, b) ==
    LET blocks == RecAt(k).content
    IN  /\ KindOf(k) = "user"
        /\ blocks[b].btype = "tool_result"
        /\ \/ blocks[b].id \notin PendingIds(StateBefore(k).pending)
           \/ \E a \in 1..(b - 1) :
                  blocks[a].btype = "tool_result" /\ blocks[a].id = blocks[b].id

\* The tool_result entries made from block b of record k.
EntriesFrom(k, b) ==
    SelectSeq(EntriesOf(k), LAMBDA e : e.src = <<k, b>> /\ e.content_type = "tool_result")

\* The text of entry e begins with the summary.
HasSummaryOf(e, summary) ==
    Len(e.text) >= Len(summary) /\ SubSeq(e.text, 1, Len(summary)) = summary

\* C24 as stated: every unmatched tool_result block yields exactly one
\* tool_result entry.
C24_UnmatchedAlwaysOne ==
    recOut.done =>
        \A k \in 1..RecCount : \A b \in DOMAIN RecAt(k).content :
            Unmatched(k, b) =>
                /\ Len(EntriesFrom(k, b)) = 1
                /\ EntriesFrom(k, b)[1].text = format_expandable_quote(RecAt(k).content[b].text)

\* C24, amended: an unmatched tool_result block with a non-empty result text
\* yields exactly one tool_result entry, the quoted result text alone; one
\* with an empty result text yields no entry; in both cases no pending
\* summary is taken: every summary pending before the record leaves it
\* in an entry of the record.
C24_Unmatched ==
    recOut.done =>
        \A k \in 1..RecCount : \A b \in DOMAIN RecAt(k).content :
            Unmatched(k, b) =>
                LET text == RecAt(k).content[b].text
                    es == EntriesFrom(k, b)
                    before == StateBefore(k).pending
                IN  /\ text = "" => es = <<>>
                    /\ text # "" =>
                           /\ Len(es) = 1
                           /\ es[1].content_type = "tool_result"
                           /\ es[1].text = format_expandable_quote(text)
                           /\ es[1].use = NoPos
                    /\ \A p \in DOMAIN before :
                           \E j \in DOMAIN EntriesOf(k) :
                               /\ EntriesOf(k)[j].tool_use_id = before[p].id
                               /\ HasSummaryOf(EntriesOf(k)[j], before[p].summary)

\* A record with an unmatched result of empty text, read while a summary
\* is pending, and a later record with an unmatched result that has a text.
C24_Witness ==
    /\ recOut.done
    /\ \E k \in 1..RecCount :
           /\ RecAt(k) = U_res21
           /\ Unmatched(k, 2)
           /\ StateBefore(k).pending # <<>>
    /\ \E k \in 1..RecCount : RecAt(k) = U_res1 /\ Unmatched(k, 1)

IsUserEntry(e) == e.role = "user"

\* The plain texts of a record: its text blocks, stripped, that are not
\* empty and carry no internal tag marker, in block order.
PlainTexts(content) ==
    LET stripped == [b \in DOMAIN content |->
                        IF content[b].btype = "text" /\ ~RE_SYSTEM_TAGS(Strip(content[b].text))
                        THEN Strip(content[b].text) ELSE ""]
    IN  SelectSeq(stripped, LAMBDA t : t # "")

HasEchoMarkup(parts) ==
    \E p \in DOMAIN parts :
        RE_LOCAL_STDOUT(parts[p]) # None \/ RE_COMMAND_NAME(parts[p]) # None

ResultIds(content) ==
    {content[b].id : b \in {c \in DOMAIN content : content[c].btype = "tool_result"}}

IsStandaloneUse(e) == e.content_type = "tool_use"

\* C26: after a user record that the tool-result rule processed nothing is
\* pending; the summaries that were pending and that no tool_result of the
\* record matched are emitted as standalone tool_use entries, in the order
\* of their insertion, after the record's tool_result entries.
C26_UserFlush ==
    recOut.done =>
        \A k \in 1..RecCount :
            KindOf(k) = "user" =>
                LET es == EntriesOf(k)
                    left == SelectSeq(StateBefore(k).pending,
                                LAMBDA p : p.id \notin ResultIds(RecAt(k).content))
                    flushed == SelectSeq(es, IsStandaloneUse)
                IN  /\ StateAfter(k).pending = <<>>
                    /\ Len(flushed) = Len(left)
                    /\ \A j \in DOMAIN left :
                           /\ flushed[j].text = left[j].summary
                           /\ flushed[j].tool_use_id = left[j].id
                    /\ \A i \in DOMAIN es : \A j \in DOMAIN es :
                           (IsStandaloneUse(es[i]) /\ es[j].content_type = "tool_result")
                               => j < i

\* Two summaries pending, flushed in their order by a record that matches
\* neither; and one flushed after the result entry of the other.
C26_Witness ==
    /\ recOut.done
    /\ \E k \in 1..RecCount :
           /\ KindOf(k) = "user"
           /\ Len(SelectSeq(EntriesOf(k), IsStandaloneUse)) = 2
    /\ \E k \in 1..RecCount :
           /\ RecAt(k) = U_res1
           /\ Len(StateBefore(k).pending) = 2
           /\ Len(EntriesOf(k)) = 2

\* C27: a tool_use block with an id gives no entry while its record is
\* processed and is pending under its id afterwards; a tool_use block
\* without an id gives one standalone tool_use entry at once, in the place
\* of its block among the record's entries, and is never pending.
C27_DeferredOrImmediate ==
    recOut.done =>
        \A k \in 1..RecCount :
            KindOf(k) = "assistant" =>
                LET es == EntriesOf(k)
                    blocks == RecAt(k).content
                    after == StateAfter(k).pending
                IN  /\ \A b \in DOMAIN blocks :
                           blocks[b].btype = "tool_use" =>
                               IF blocks[b].id # ""
                               THEN /\ ~\E j \in DOMAIN es : es[j].use = <<k, b>>
                                    /\ \E p \in DOMAIN after :
                                           /\ after[p].id = blocks[b].id
                                           /\ after[p].use[1] = k
                                           /\ after[p].use[2] >= b
                               ELSE /\ Len(SelectSeq(es, LAMBDA e : e.src = <<k, b>>)) = 1
                                    /\ \E j \in DOMAIN es :
                                           /\ es[j].src = <<k, b>>
                                           /\ es[j].content_type = "tool_use"
                                           /\ es[j].text = format_tool_use_summary(blocks[b])
                                    /\ ~\E p \in DOMAIN after : after[p].use = <<k, b>>
                    /\ \A p \in DOMAIN after : after[p].id # ""
                    /\ \A i \in DOMAIN es : \A j \in DOMAIN es :
                           (i < j /\ es[i].src[1] = k /\ es[j].src[1] = k)
                               => es[i].src[2] < es[j].src[2]

\* A record with a tool_use without id followed by one with an id: one
\* entry, one pending summary.
C27_Witness ==
    /\ recOut.done
    /\ \E k \in 1..RecCount :
           /\ RecAt(k) = A_noid
           /\ Len(StateAfter(k).pending) = 1
           /\ \E j \in DOMAIN EntriesOf(k) : EntriesOf(k)[j].src = <<k, 1>>

\* C28: a record whose type is neither user nor assistant gives no entry
\* and leaves the pending state as it was, neither flushed nor paired; its
\* line is counted in the offset like any other.
C28_IgnoredRecord ==
    recOut.done =>
        /\ \A k \in 1..RecCount :
               RecAt(k).type \notin {"user", "assistant"} =>
                   /\ EntriesOf(k) = <<>>
                   /\ StateAfter(k).pending = StateBefore(k).pending
        /\ recOut.last_line_count = Len(recIn.lines)
        /\ RecCount = Len(recIn.lines)

\* An ignored record read while two summaries are pending, between the
\* record of a tool_use and the record of its result.
C28_Witness ==
    /\ recOut.done
    /\ \E k \in 2..(RecCount - 1) :
           /\ RecAt(k) = R_other
           /\ StateBefore(k).pending # <<>>
           /\ RecAt(k + 1) = U_res1
           /\ \E j \in DOMAIN EntriesOf(k + 1) : HasSummary(EntriesOf(k + 1)[j])


(***************************************************************************)
(* Vocabulary of the restart claim.                                        *)
(***************************************************************************)
\* What the stopped monitor held as pending at the persisted offset the new
\* one starts from: what the records up to that offset left unanswered (the
\* carry makes this independent of how the cycles split them).
PendingAtRestart ==
    RecordLoop(SubSeq(pHist, 1, pReplay.from), 1,
               [result |-> <<>>, pending |-> <<>>, last_cmd_name |-> None],
               0).pending

\* The new monitor's reconstructor state just before it processes record k.
ReplayBefore(k) ==
    RecordLoop(SubSeq(pHist, pReplay.from + 1, k - 1), 1,
               [result |-> <<>>, pending |-> <<>>, last_cmd_name |-> None],
               pReplay.from)

\* Block b of record k, read after the restart, is the result of a tool_use
\* that was pending when the old monitor stopped and that no record read
\* since the restart has invoked again.
ResultOfDropped(k, b) ==
    LET blk == pHist[k].content[b]
    IN  /\ pHist[k].type = "user"
        /\ blk.btype = "tool_result"
        /\ blk.id \in PendingIds(PendingAtRestart)
        /\ blk.id \notin PendingIds(ReplayBefore(k).pending)

\* The tool_result entries the new monitor made from block b of record k.
ReplayFrom(k, b) ==
    SelectSeq(pReplay.out,
              LAMBDA e : e.src = <<k, b>> /\ e.content_type = "tool_result")

\* No entry made after the restart stems from a tool_use at or before the
\* persisted offset, and the new monitor reads from that offset on.
NoneFromDropped ==
    /\ pReplay.upto <= Len(pHist)
    /\ \A j \in DOMAIN pReplay.out :
           LET e == pReplay.out[j]
           IN  /\ pReplay.from < e.at /\ e.at <= pReplay.upto
               /\ e.use = NoPos \/ e.use[1] > pReplay.from

C30_TrackedOnlyGrow ==
    pc = "deliver" =>
        \A sid \in SessionIds :
            /\ cBefore[sid].known => tracked[sid].known
            /\ ( /\ ~cBefore[sid].known
                 /\ Reached(sid)
                 /\ cMode[sid].kind \notin {"stat_oserror", "decode_error"} )
               => tracked[sid].known
            /\ (cBefore[sid].known /\ tracked[sid] # cBefore[sid])
               => cMode[sid] = OK


(***************************************************************************)
(* SpecHook: the SessionStart hook processes (src/src/ccmux/hook.py), the  *)
(* session map file they share, and the bot's window states               *)
(* (src/src/ccmux/session.py) that each poll cycle refreshes from it.      *)
(* Every hook is a process of its own: its steps interleave with those of  *)
(* the others and of the bot at every system call.  Every file access      *)
(* succeeds.                                                               *)
(***************************************************************************)
Rep(c, n) == [k \in 1..n |-> c]

\* A text of the form 8-4-4-4-12 made of the character c.
UuidOf(c) ==
    Rep(c, 8) \o <<"-">> \o Rep(c, 4) \o <<"-">> \o Rep(c, 4) \o <<"-">>
        \o Rep(c, 4) \o <<"-">> \o Rep(c, 12)

UUID_A == UuidOf("a")
UUID_B == UuidOf("1")
UUID_UPPER == UuidOf("A")
UUID_SHORT == Rep("a", 8)
UUID_NL == Append(UuidOf("a"), "\n")

HexLower ==
    {"0", "1", "2", "3", "4", "5", "6", "7", "8", "9", "a", "b", "c", "d", "e", "f"}

\* _UUID_RE.match(s), line 19 and 39: "^" and "$" without re.MULTILINE; "$"
\* matches at the end of the text and also just before a line break that
\* ends the text.
UUID_RE_match(s) ==
    LET body == IF Len(s) = 37 /\ s[37] = "\n" THEN SubSeq(s, 1, 36) ELSE s
    IN  /\ Len(body) = 36
        /\ \A k \in 1..36 :
               IF k \in {9, 14, 19, 24} THEN body[k] = "-" ELSE body[k] \in HexLower

\* os.path.isabs(cwd) on POSIX.
isabs(cwd) == Len(cwd) > 0 /\ cwd[1] = "/"

\* tmux display-message -p '#{window_name}' for the pane, stripped (lines
\* 55-60): pane %1 is in window w1, pane %2 in w2; for any other pane tmux
\* prints nothing.
window_name_of(pane) ==
    CASE pane = "%1" -> "w1"
      [] pane = "%2" -> "w2"
      [] OTHER -> ""

\* Lines 26-62 of hook_main: TRUE when the process goes on to the map.
hook_accepts(p) ==
    /\ p.valid_json
    /\ p.session_id # <<>> /\ p.hook_event_name # ""
    /\ UUID_RE_match(p.session_id)
    /\ ~(p.cwd # <<>> /\ ~isabs(p.cwd))
    /\ p.hook_event_name = "SessionStart"
    /\ p.pane # ""
    /\ window_name_of(p.pane) # ""

\* The payloads of the hooks: the accepted ones for two sessions and two
\* windows, and those that differ from an accepted one in one field.
HookPayloads ==
    {Payload(TRUE, sid, <<"/", "p">>, "SessionStart", pane) :
        sid \in {UUID_A, UUID_B}, pane \in {"%1", "%2"}}
    \cup {Payload(FALSE, UUID_A, <<"/", "p">>, "SessionStart", "%1")}
    \cup {Payload(TRUE, sid, <<"/", "p">>, "SessionStart", "%1") :
            sid \in {<<>>, UUID_UPPER, UUID_SHORT, UUID_NL}}
    \cup {Payload(TRUE, UUID_A, cwd, "SessionStart", "%1") : cwd \in {<<>>, <<"p">>}}
    \cup {Payload(TRUE, UUID_A, <<"/", "p">>, ev, "%1") : ev \in {"", "SessionEnd"}}
    \cup {Payload(TRUE, UUID_A, <<"/", "p">>, "SessionStart", pane) : pane \in {"", "%9"}}

HookOp(step, h, p) == [step |-> step, h |-> h, payload |-> p]

\* hook_main up to line 68: the payload is validated and the process either
\* returns or goes on to open the lock file.
HookStart(h, p) ==
    /\ hooks[h].pc = "new"
    /\ hooks' = [hooks EXCEPT ![h] =
                    IF hook_accepts(p)
                    THEN [@ EXCEPT !.pc = "wait",
                                   !.window_name = window_name_of(p.pane),
                                   !.entry = MapEntry(p.session_id, p.cwd)]
                    ELSE [@ EXCEPT !.pc = "done"]]
    /\ hkOp' = HookOp("start", h, p)
    /\ UNCHANGED <<session_map, lock, window_states, hkLast, hkCleared>>
    /\ UNCHANGED <<parseVars, monVars, cycleVars, replayVars, lifeVars, scanVars,
                   recVars, splitVars, tailVars>>

\* Variant: the lock is taken without waiting for its holder.
HookLock_NoWait(h) ==
    /\ hooks[h].pc = "wait"
    /\ lock' = h
    /\ hooks' = [hooks EXCEPT ![h].pc = "locked"]
    /\ hkOp' = HookOp("lock", h, NoPayload)
    /\ UNCHANGED <<session_map, window_states, hkLast, hkCleared>>
    /\ UNCHANGED <<parseVars, monVars, cycleVars, replayVars, lifeVars, scanVars,
                   recVars, splitVars, tailVars>>

\* fcntl.flock(lock_f, LOCK_EX), line 71: returns once no other process
\* holds the lock.
HookLock(h) ==
    /\ hooks[h].pc = "wait"
    /\ lock = 0
    /\ lock' = h
    /\ hooks' = [hooks EXCEPT ![h].pc = "locked"]
    /\ hkOp' = HookOp("lock", h, NoPayload)
    /\ UNCHANGED <<session_map, window_states, hkLast, hkCleared>>
    /\ UNCHANGED <<parseVars, monVars, cycleVars, replayVars, lifeVars, scanVars,
                   recVars, splitVars, tailVars>>

\* session_map = json.loads(map_file.read_text()), lines 73-78.
HookRead(h) ==
    /\ hooks[h].pc = "locked"
    /\ hooks' = [hooks EXCEPT ![h].pc = "read", ![h].session_map = session_map]
    /\ hkOp' = HookOp("read", h, NoPayload)
    /\ UNCHANGED <<session_map, lock, window_states, hkLast, hkCleared>>
    /\ UNCHANGED <<parseVars, monVars, cycleVars, replayVars, lifeVars, scanVars,
                   recVars, splitVars, tailVars>>

\* session_map[window_name] = {...}; atomic_write_json(map_file,
\* session_map), lines 80-87: the file is replaced as a whole.
HookWrite(h) ==
    /\ hooks[h].pc = "read"
    /\ session_map' = [hooks[h].session_map EXCEPT ![hooks[h].window_name] = hooks[h].entry]
    /\ hooks' = [hooks EXCEPT ![h].pc = "written",
                              ![h].session_map = session_map']
    /\ hkLast' = [hkLast EXCEPT ![hooks[h].window_name] = h]
    /\ hkCleared' = [hkCleared EXCEPT ![hooks[h].window_name] = FALSE]
    /\ hkOp' = HookOp("write", h, NoPayload)
    /\ UNCHANGED <<lock, window_states>>
    /\ UNCHANGED <<parseVars, monVars, cycleVars, replayVars, lifeVars, scanVars,
                   recVars, splitVars, tailVars>>

\* fcntl.flock(lock_f, LOCK_UN), line 89, and the end of the process.
HookUnlock(h) ==
    /\ hooks[h].pc = "written"
    /\ lock' = IF lock = h THEN 0 ELSE lock
    /\ hooks' = [hooks EXCEPT ![h].pc = "done"]
    /\ hkOp' = HookOp("unlock", h, NoPayload)
    /\ UNCHANGED <<session_map, window_states, hkLast, hkCleared>>
    /\ UNCHANGED <<parseVars, monVars, cycleVars, replayVars, lifeVars, scanVars,
                   recVars, splitVars, tailVars>>

\* SessionManager.load_session_map (session.py:180-204), called at the start
\* of every poll cycle (session_monitor.py:308): every entry of the map
\* with a session id overwrites the window's state when it differs.
load_session_map(states, map) ==
    [w \in Windows |->
        IF map[w].session_id # <<>> /\ states[w] # map[w].session_id
        THEN map[w].session_id
        ELSE states[w]]

LoadSessionMap ==
    /\ window_states' = load_session_map(window_states, session_map)
    /\ hkOp' = HookOp("load", 0, NoPayload)
    /\ UNCHANGED <<session_map, lock, hooks, hkLast, hkCleared>>
    /\ UNCHANGED <<parseVars, monVars, cycleVars, replayVars, lifeVars, scanVars,
                   recVars, splitVars, tailVars>>

\* forward_command_handler after a /clear was sent to the window (bot.py:
\* 677-683): SessionManager.clear_window_session (session.py:221-226).
ClearWindowSession(w) ==
    /\ window_states[w] # <<>>
    /\ window_states' = [window_states EXCEPT ![w] = <<>>]
    /\ hkCleared' = [hkCleared EXCEPT ![w] = TRUE]
    /\ hkOp' = HookOp("clear", 0, NoPayload)
    /\ UNCHANGED <<session_map, lock, hooks, hkLast>>
    /\ UNCHANGED <<parseVars, monVars, cycleVars, replayVars, lifeVars, scanVars,
                   recVars, splitVars, tailVars>>

HookInit == MonInit /\ ParseIdle /\ ExtIdle

HookNext ==
    \/ \E h \in HookIds : \E p \in HookPayloads : HookStart(h, p)
    \/ \E h \in HookIds : HookLock(h)
    \/ \E h \in HookIds : HookRead(h)
    \/ \E h \in HookIds : HookWrite(h)
    \/ \E h \in HookIds : HookUnlock(h)
    \/ LoadSessionMap
    \/ \E w \in Windows : ClearWindowSession(w)

SpecHook == HookInit /\ [][HookNext]_vars


(***************************************************************************)
(* Vocabulary of the hook claims.                                          *)
(***************************************************************************)
\* The hook processes inside the locked section of hook_main.
InLocked == {h \in HookIds : hooks[h].pc \in {"locked", "read", "written"}}

\* The hook processes that have written their entry.
Wrote == {h \in HookIds : hooks[h].window_name # "" /\ hooks[h].pc \in {"written", "done"}}

IsLowerUuid(s) ==
    /\ Len(s) = 36
    /\ \A k \in 1..36 :
           IF k \in {9, 14, 19, 24} THEN s[k] = "-" ELSE s[k] \in HexLower

\* The payload and environment of a valid SessionStart.
ValidSessionStart(p) ==
    /\ p.valid_json
    /\ p.session_id # <<>>
    /\ IsLowerUuid(p.session_id)
    /\ p.cwd = <<>> \/ p.cwd[1] = "/"
    /\ p.hook_event_name = "SessionStart"
    /\ p.pane # "" /\ window_name_of(p.pane) # ""

\* C32: a hook whose input is not a valid SessionStart returns without
\* touching the session map; the map changes only by the write of a hook
\* with a valid SessionStart, which sets the entry of its own window to its
\* session id and cwd and leaves every other window's entry as it was.
C32_HookValidation ==
    [][/\ (hkOp'.step = "start" /\ ~ValidSessionStart(hkOp'.payload))
            => hooks'[hkOp'.h].pc = "done"
       /\ session_map' # session_map =>
            \E h \in HookIds :
                /\ hooks[h].pc = "read" /\ hooks'[h].pc = "written"
                /\ IsLowerUuid(hooks[h].entry.session_id)
                /\ session_map' =
                       [session_map EXCEPT ![hooks[h].window_name] = hooks[h].entry]
      ]_vars


\* C33: once a window's session association is cleared after a /clear, the
\* window's session id stays empty through every poll cycle until a hook
\* writes an entry for that window: load_session_map does not bring the
\* old id back from the unchanged map.
C33_ClearStaysCleared ==
    \A w \in Windows : hkCleared[w] => window_states[w] = <<>>


(***************************************************************************)
(* SpecSplit: split_message (src/src/ccmux/telegram_sender.py:11-41).  A   *)
(* text is the tuple of its characters, "\n" the line break.               *)
(***************************************************************************)
MaxText == 6
MaxSplit == 3

SplitChars == {"a", "\n"}

RECURSIVE TextsUpTo(_)
TextsUpTo(n) ==
    IF n = 0 THEN {<<>>}
    ELSE LET shorter == TextsUpTo(n - 1)
         IN  shorter \cup {Append(t, c) : t \in {u \in shorter : Len(u) = n - 1},
                                           c \in SplitChars}

\* text.split("\n"): the lines of the text from character k on, line
\* holding the characters of the line under way.
RECURSIVE split_lines(_, _, _)
split_lines(text, k, line) ==
    IF k > Len(text) THEN <<line>>
    ELSE IF text[k] = "\n" THEN <<line>> \o split_lines(text, k + 1, <<>>)
    ELSE split_lines(text, k + 1, Append(line, text[k]))

\* Variant: nothing is stripped.
rstrip_Keep(s) == s

\* s.rstrip("\n")
RECURSIVE rstrip(_)
rstrip(s) ==
    IF s # <<>> /\ s[Len(s)] = "\n" THEN rstrip(SubSeq(s, 1, Len(s) - 1)) ELSE s

\* [line[i : i + max_length] for i in range(0, len(line), max_length)],
\* lines 29-30, from index i on (0-based).
RECURSIVE pieces(_, _, _)
pieces(line, i, max_length) ==
    IF i >= Len(line) THEN <<>>
    ELSE <<SubSeq(line, i + 1, IF i + max_length < Len(line) THEN i + max_length
                                                               ELSE Len(line))>>
         \o pieces(line, i + max_length, max_length)

\* One iteration of the loop over the lines, lines 22-36.
split_step(st, line, max_length) ==
    IF Len(line) > max_length
    THEN [chunks |-> (IF st.current_chunk # <<>>
                      THEN Append(st.chunks, rstrip(st.current_chunk))
                      ELSE st.chunks) \o pieces(line, 0, max_length),
          current_chunk |-> <<>>]
    ELSE IF Len(st.current_chunk) + Len(line) + 1 > max_length
    THEN [chunks |-> Append(st.chunks, rstrip(st.current_chunk)),
          current_chunk |-> Append(line, "\n")]
    ELSE [chunks |-> st.chunks,
          current_chunk |-> st.current_chunk \o Append(line, "\n")]

RECURSIVE split_loop(_, _, _, _)
split_loop(lines, k, st, max_length) ==
    IF k > Len(lines) THEN st
    ELSE split_loop(lines, k + 1, split_step(st, lines[k], max_length), max_length)

split_message(text, max_length) ==
    IF Len(text) <= max_length THEN <<text>>
    ELSE LET st == split_loop(split_lines(text, 1, <<>>), 1,
                              [chunks |-> <<>>, current_chunk |-> <<>>], max_length)
         IN  IF st.current_chunk # <<>>
             THEN Append(st.chunks, rstrip(st.current_chunk))
             ELSE st.chunks

SplitInputs ==
    {[text |-> t, max_length |-> m] : t \in TextsUpTo(MaxText), m \in 1..MaxSplit}

\* chunks = split_message(text, max_length=...)
Split ==
    /\ ~splitOut.done
    /\ splitOut' = [done |-> TRUE,
                    chunks |-> split_message(splitIn.text, splitIn.max_length)]
    /\ UNCHANGED <<splitIn, parseVars, monVars, cycleVars, replayVars, lifeVars,
                   scanVars, recVars, hookVars, tailVars>>

SplitInit ==
    /\ MonInit /\ ParseIdle /\ ReplayIdle /\ LifeIdle /\ ScanIdle /\ RecIdle /\ HookIdle
    /\ TailIdle
    /\ splitIn \in SplitInputs
    /\ splitOut = NoSplitOut

SpecSplit == SplitInit /\ [][Split]_vars

\* C34: every chunk split_message returns is at most max_length long, and a
\* text that is at most max_length long comes back as the one chunk, as it
\* is.
C34_ChunkSizeBound ==
    splitOut.done =>
        /\ \A k \in DOMAIN splitOut.chunks :
               Len(splitOut.chunks[k]) <= splitIn.max_length
        /\ Len(splitIn.text) <= splitIn.max_length =>
               splitOut.chunks = <<splitIn.text>>

\* A text of a short line and a line longer than max_length: a chunk that
\* loses its line break to rstrip, followed by pieces of at most max_length
\* characters.
C34_Witness ==
    /\ splitOut.done
    /\ splitIn.max_length = 2
    /\ splitIn.text = <<"a", "\n", "a", "a", "a">>
    /\ splitOut.chunks = <<<<"a">>, <<"a", "a">>, <<"a">>>>

\* C35: split_message returns no empty chunk for a non-empty text longer
\* than max_length, also when a line is exactly max_length long or is the
\* first line of the text.
C35_NoEmptyChunk ==
    (splitOut.done /\ Len(splitIn.text) > splitIn.max_length) =>
        \A k \in DOMAIN splitOut.chunks : splitOut.chunks[k] # <<>>


(***************************************************************************)
(* Vocabulary of the claims about one session's cycle.                     *)
(***************************************************************************)
\* The last cycle was the one in which session sid was first seen.
FirstSeen(sid) == pc = "deliver" /\ ~cBefore[sid].known /\ tracked[sid].known

\* The messages of the last cycle that come from session sid.
CycleMessagesOf(sid) ==
    SelectSeq(cDelivered \o queue, LAMBDA m : m.session_id = sid)

\* C36: the cycle in which a session is first seen sets its offset to the
\* number of lines its file has and last_mtime to the file's mtime, decodes
\* no line of it and emits no event for it, so that events come only from
\* lines appended later.
C36_FirstSighting ==
    \A sid \in SessionIds :
        FirstSeen(sid) =>
            /\ tracked[sid].last_line_count = Len(file[sid])
            /\ tracked[sid].last_mtime = mtime[sid]
            /\ cRead[sid] = <<>>
            /\ CycleMessagesOf(sid) = <<>>


\* The loop body of check_for_updates for session sid, run now on the state
\* as it is with the flag and the results of the cycle cleared.
BodyNow(sid) ==
    LET acc == [tracked |-> tracked, pend |-> pend, dirty |-> FALSE,
                new_messages |-> <<>>, aborted |-> FALSE, read |-> NoRead]
    IN  [before |-> acc,
         after |-> ProcessSession(acc, sid, file[sid], mtime[sid], OK)]

\* The last cycle found session sid tracked and its file not newer than
\* last_mtime.
Gated(sid) ==
    /\ pc = "deliver"
    /\ Reached(sid)
    /\ cBefore[sid].known
    /\ mtime[sid] <= cBefore[sid].last_mtime

\* The last cycle called _read_new_lines for session sid and went on to
\* the end of the loop body.
ReadDone(sid) ==
    /\ pc = "deliver"
    /\ Reached(sid)
    /\ cBefore[sid].known
    /\ mtime[sid] > cBefore[sid].last_mtime
    /\ cMode[sid].kind \notin {"stat_oserror", "decode_error"}

\* C37: for a tracked session whose file's mtime is not greater than
\* last_mtime the loop body reads nothing, emits nothing, leaves the offset,
\* last_mtime and the pending state as they are and does not set the dirty
\* flag; after a cycle that reads the file, last_mtime is the mtime the
\* cycle observed.
C37_MtimeGate ==
    \A sid \in SessionIds :
        /\ (tracked[sid].known /\ mtime[sid] <= tracked[sid].last_mtime) =>
               BodyNow(sid).after = BodyNow(sid).before
        /\ Gated(sid) =>
               /\ cRead[sid] = <<>>
               /\ CycleMessagesOf(sid) = <<>>
               /\ tracked[sid] = cBefore[sid]
               /\ pend[sid] = cCarry[sid]
        /\ ReadDone(sid) => tracked[sid].last_mtime = mtime[sid]

\* A cycle that skips a session with lines read earlier while it reads the
\* other session's new line.
C37_Witness ==
    /\ Gated("s1")
    /\ tracked["s1"].last_line_count > 0
    /\ ReadDone("s2")
    /\ cRead["s2"] # <<>>


(***************************************************************************)
(* SpecTail: the monitor tailing files whose writer works concurrently     *)
(* with the polling.  A record reaches the file in two writes, its         *)
(* beginning and then its rest with the line terminator, or in one; a poll *)
(* cycle may come between the two.  Iterating over the file yields the     *)
(* unterminated beginning as a line of its own (session_monitor.py:195,    *)
(* 211).  No file is truncated and every file access succeeds.             *)
(***************************************************************************)
TailRecords == {A_text, U_text}

\* The last line of the file is a record not yet written to its end.
Unfinished(f) == f # <<>> /\ f[Len(f)].kind = "partial"

\* The writer writes the beginning of a record.
WriteBeginning(sid, rec) ==
    /\ ~Unfinished(file[sid])
    /\ Len(file[sid]) < MaxLines
    /\ Writes < MaxWrites
    /\ file' = [file EXCEPT ![sid] = Append(@, Line("partial", rec))]
    /\ mtime' = [mtime EXCEPT ![sid] = @ + 1]
    /\ UNCHANGED <<tracked, pend, dirty, disk, pc, queue, cycleVars, parseVars, extVars>>

\* The writer writes the rest of the record and the line terminator.
WriteRest(sid) ==
    /\ Unfinished(file[sid])
    /\ Writes < MaxWrites
    /\ file' = [file EXCEPT ![sid][Len(file[sid])].kind = "json"]
    /\ mtime' = [mtime EXCEPT ![sid] = @ + 1]
    /\ UNCHANGED <<tracked, pend, dirty, disk, pc, queue, cycleVars, parseVars, extVars>>

\* The writer writes a whole record with its line terminator at once.
WriteRecord(sid, rec) ==
    /\ ~Unfinished(file[sid])
    /\ Len(file[sid]) < MaxLines
    /\ Writes < MaxWrites
    /\ file' = [file EXCEPT ![sid] = Append(@, Line("json", rec))]
    /\ mtime' = [mtime EXCEPT ![sid] = @ + 1]
    /\ UNCHANGED <<tracked, pend, dirty, disk, pc, queue, cycleVars, parseVars, extVars>>

\* One call of check_for_updates (lines 221-290) with every access
\* succeeding; hPassed collects what _read_new_lines returned to the parse
\* step (lines 251, 261), hFirst the offset each session starts from.
Poll ==
    LET acc == SessionLoop(
                  [tracked |-> tracked, pend |-> pend, dirty |-> dirty,
                   new_messages |-> <<>>, aborted |-> FALSE, read |-> NoRead],
                  1, AllOK)
    IN  /\ tracked' = acc.tracked
        /\ pend' = acc.pend
        /\ dirty' = FALSE
        /\ disk' = IF acc.dirty THEN acc.tracked ELSE disk
        /\ hPassed' = [sid \in SessionIds |-> hPassed[sid] \o acc.read[sid]]
        /\ hFirst' = [sid \in SessionIds |->
                        IF ~tracked[sid].known /\ acc.tracked[sid].known
                        THEN acc.tracked[sid].last_line_count
                        ELSE hFirst[sid]]
        /\ UNCHANGED <<file, mtime, pc, queue, cycleVars, parseVars, replayVars,
                       running, task, tasks, calls, hOp, hHanded,
                       scanVars, recVars, hookVars, splitVars>>

TailNext ==
    \/ \E sid \in SessionIds : \E rec \in TailRecords : WriteBeginning(sid, rec)
    \/ \E sid \in SessionIds : WriteRest(sid)
    \/ \E sid \in SessionIds : \E rec \in TailRecords : WriteRecord(sid, rec)
    \/ Poll

SpecTail == Init /\ [][TailNext]_vars

(***************************************************************************)
(* Vocabulary of the tailing claims.                                       *)
(***************************************************************************)
\* The records of the lines from..to of f that are written to their end.
RECURSIVE CompleteRecords(_, _, _)
CompleteRecords(f, from, to) ==
    IF from > to THEN <<>>
    ELSE (IF f[from].kind = "json" THEN <<f[from].rec>> ELSE <<>>)
         \o CompleteRecords(f, from + 1, to)

\* The monitor has polled the file as it is now: nothing more is read of it
\* until it is written again.
UpToDate(sid) == tracked[sid].known /\ tracked[sid].last_mtime = mtime[sid]

\* C38: with a writer appending concurrently with the polling, every record
\* written to its end after the session was first seen is decoded and
\* passed to the reconstructor exactly once: when the monitor has polled
\* the file as it is, what it has passed on is the complete records of the
\* lines after the first offset, once each and in file order; and it never
\* passes a record twice or out of order on the way.
C38_NoLostRecord ==
    \A sid \in SessionIds :
        /\ tracked[sid].known =>
               IsSubseq(hPassed[sid],
                        CompleteRecords(file[sid], hFirst[sid] + 1, Len(file[sid])))
        /\ UpToDate(sid) =>
               hPassed[sid] =
                   CompleteRecords(file[sid], hFirst[sid] + 1, Len(file[sid]))


(***************************************************************************)
(* SpecRegrow: the monitor tailing files that the producer truncates and   *)
(* fills again between two polls (e.g. after a "clear history").  Records  *)
(* are written whole and every file access succeeds.                       *)
(***************************************************************************)
LinesOfRecords(recs) == [k \in 1..Len(recs) |-> Line("json", recs[k])]

\* The producer truncates the file to nothing and appends new records, all
\* before the next poll.  From here on hPassed and hFirst are about the new
\* content.
Rewrite(sid, recs) ==
    /\ file[sid] # <<>>
    /\ recs # <<>>
    /\ Writes < MaxWrites
    /\ file' = [file EXCEPT ![sid] = LinesOfRecords(recs)]
    /\ mtime' = [mtime EXCEPT ![sid] = @ + 1]
    /\ hPassed' = [hPassed EXCEPT ![sid] = <<>>]
    /\ hFirst' = [hFirst EXCEPT ![sid] = 0]
    /\ UNCHANGED <<tracked, pend, dirty, disk, pc, queue, cycleVars, parseVars,
                   replayVars, running, task, tasks, calls, hOp, hHanded,
                   scanVars, recVars, hookVars, splitVars>>

RegrowNext ==
    \/ \E sid \in SessionIds : \E rec \in TailRecords : WriteRecord(sid, rec)
    \/ \E sid \in SessionIds : \E recs \in SeqsUpTo(TailRecords, MaxLines) : Rewrite(sid, recs)
    \/ Poll

SpecRegrow == Init /\ [][RegrowNext]_vars

\* The file of session sid was truncated and filled again while it was
\* tracked, and the monitor has polled it since.
PolledAfterRewrite(sid) ==
    /\ UpToDate(sid)
    /\ hFirst[sid] = 0
    /\ file[sid] # <<>>

\* C39: when a tracked file was truncated and filled again before a poll,
\* that poll returns every record the file then holds, whether the file
\* has fewer lines than the remembered offset, as many, or more.
C39_TruncateRegrow ==
    \A sid \in SessionIds :
        PolledAfterRewrite(sid) =>
            hPassed[sid] = CompleteRecords(file[sid], 1, Len(file[sid]))


(***************************************************************************)
(* SpecFail: the poll loop over transcripts in which a line may hold JSON  *)
(* that is no object.  Every file access succeeds and no file is           *)
(* truncated; the only failure is the one parse_entries raises.            *)
(***************************************************************************)
FailLines == {L_list, Line("json", A_text)}

FailNext ==
    \/ \E sid \in SessionIds : \E line \in FailLines : AppendLine(sid, line)
    \/ Cycle(AllOK)
    \/ Deliver
    \/ Sleep

SpecFail == Init /\ [][FailNext]_vars

\* The last cycle moved the in-memory offset of session sid, tracked before.
OffsetMoved(sid) ==
    /\ pc = "deliver"
    /\ cBefore[sid].known
    /\ tracked[sid].last_line_count # cBefore[sid].last_line_count

\* C40: a cycle moves a session's in-memory last_line_count only if entry
\* reconstruction succeeded on the lines it consumed and the events of the
\* reconstructed entries are among the events the cycle returns; when
\* reconstruction fails the offset stays, so the lines are read again.
C40_OffsetWithEmission ==
    \A sid \in SessionIds :
        OffsetMoved(sid) =>
            /\ ~parse_raises(cRead[sid])
            /\ CycleMessagesOf(sid) =
                   MessagesOf(sid, parse_entries(cRead[sid], cCarry[sid], 0).entries)

=============================================================================
